---- MODULE Spec2Model ----
(***************************************************************************)
(* Model of the server-list reconciliation and protocol-filtering pipeline *)
(* of utils/generate_app_configs.py (coins repository).                    *)
(*                                                                         *)
(* Python values are modelled structurally:                                *)
(*   - a str is a sequence of one-character strings, so that split(":"),   *)
(*     startswith and the ordering used by sorted() are computed, not      *)
(*     assumed;                                                            *)
(*   - a dict is a function whose DOMAIN is its key set ("k in d" is       *)
(*     k \in DOMAIN d);                                                    *)
(*   - a list is a sequence.                                               *)
(***************************************************************************)
EXTENDS Integers, Sequences, FiniteSets, TLC

VARIABLES
    dd_input,   \* filter_duplicate_domains: the list L as first passed in
    dd_list,    \* the list object (mutated in place and returned)
    dd_first,   \* contents returned by the first application
    dd_calls,   \* number of applications so far
    ge_electrums, \* get_electrums: the coin's static server list (electrums/<coin>)
    ge_report,    \* electrum_scan_report[coin]: tag -> dict url -> last_connection
    ge_out,       \* valid_electrums as stored in data[ticker]["electrum"]
    ge_done,      \* get_electrums has run
    pc,           \* main: the step the run is at
    coins_data,   \* the coins file: a list of coin definitions
    repo,         \* the per-coin files: electrums, ethereum, tendermint, light_wallet_d
    electrum_scan_report, \* coin -> tag -> dict url -> last_connection
    parse_idx,    \* parse_coins_repo: position in coins_data
    coins_config, \* the map being built: ticker -> record
    nodata,       \* the exclusion list
    files,        \* the JSON files written so far: name -> contents
    coins_config_ssl, \* the TLS view
    coins_config_wss, \* the secure-websocket view
    coins_config_tcp, \* the plaintext/TCP view
    netid,        \* validate_seed_nodes.py: the argument of wss_port and tcp_port
    port_wss,     \* what wss_port(netid) returned or raised
    port_tcp,     \* what tcp_port(netid) returned or raised
    port_done,    \* both functions have been called
    ports_tcp,    \* the ports tcp_port returned for the netids below netid
    ports_wss,    \* the ports wss_port returned for the netids below netid
    sn_pc,        \* validate_seed_nodes.py main: the step the run is at
    argv,         \* sys.argv[1:]
    schema,       \* validate_seed_nodes: what load_json_file(schema_path) returned
    seed_nodes,   \* what load_json_file(seed_nodes_path) returned
    network,      \* the outcome a probe of each host has: host -> [tcp, wss]
    wss_connectivity_result, \* what check_wss_connectivity returned
    tcp_connectivity_result, \* what check_tcp_connectivity returned
    is_valid,     \* what validate_seed_nodes returned
    exit_code,    \* the argument of sys.exit: << >> while running
    sys_argv,     \* generate_app_configs.py: sys.argv[1:]
    scans,        \* number of calls of get_electrums_report
    spritemaps,   \* number of calls of generate_spritemap
    second_run,   \* the generator has been started again on the same inputs
    first_run,    \* the files and the maps the first run ended with
    rec_item,     \* CoinConfig: the coin definition (coin_data)
    rec_tree,     \* the per-coin files of the repository
    rec_report,   \* the liveness report
    rec_self,     \* the CoinConfig object after the steps run so far
    rec_pc,       \* the next step of the loop body of parse_coins_repo
    pr_idx,       \* check_*_connectivity: nodes of the loop handled so far
    pr_in_flight, \* the probes awaited and not yet completed: <<protocol, name>>
    pr_log,       \* the probes started so far, in order: <<protocol, name>>
    pr_success,   \* the local variable success of the loop
    pr_results    \* the successes appended to connectivity_results

ddvars == <<dd_input, dd_list, dd_first, dd_calls>>
gevars == <<ge_electrums, ge_report, ge_out, ge_done>>
mainvars == <<pc, coins_data, repo, electrum_scan_report, parse_idx, coins_config,
              nodata, files, coins_config_ssl, coins_config_wss,
              coins_config_tcp>>
portvars == <<netid, port_wss, port_tcp, port_done, ports_tcp, ports_wss>>
corevars == <<ddvars, gevars, mainvars>>
snvars == <<sn_pc, argv, schema, seed_nodes, network, wss_connectivity_result,
            tcp_connectivity_result, is_valid, exit_code>>
clivars == <<sys_argv, scans, spritemaps>>
rerunvars == <<second_run, first_run>>
genvars == <<clivars, rerunvars>>
recvars == <<rec_item, rec_tree, rec_report, rec_self, rec_pc>>
probevars == <<pr_idx, pr_in_flight, pr_log, pr_success, pr_results>>
auxvars == <<portvars, snvars, genvars, recvars, probevars>>
vars == <<corevars, auxvars>>

\* the variables of a part of the program that a specification does not run
DedupIdle ==
    /\ dd_input = << >>
    /\ dd_list = << >>
    /\ dd_first = << >>
    /\ dd_calls = 0

ElectrumsIdle ==
    /\ ge_electrums = << >>
    /\ ge_report = << >>
    /\ ge_out = << >>
    /\ ge_done = FALSE

MainIdle ==
    /\ pc = "idle"
    /\ coins_data = << >>
    /\ repo = << >>
    /\ electrum_scan_report = << >>
    /\ parse_idx = 0
    /\ coins_config = << >>
    /\ nodata = << >>
    /\ files = << >>
    /\ coins_config_ssl = << >>
    /\ coins_config_wss = << >>
    /\ coins_config_tcp = << >>

PortsIdle ==
    /\ netid = 0
    /\ port_wss = << >>
    /\ port_tcp = << >>
    /\ port_done = FALSE
    /\ ports_tcp = { }
    /\ ports_wss = { }

SeedNodesIdle ==
    /\ sn_pc = "idle"
    /\ argv = << >>
    /\ schema = << >>
    /\ seed_nodes = << >>
    /\ network = << >>
    /\ wss_connectivity_result = << >>
    /\ tcp_connectivity_result = << >>
    /\ is_valid = << >>
    /\ exit_code = << >>

CliIdle ==
    /\ sys_argv = << >>
    /\ scans = 0
    /\ spritemaps = 0

RerunIdle ==
    /\ second_run = FALSE
    /\ first_run = << >>

GenIdle == CliIdle /\ RerunIdle

RecordIdle ==
    /\ rec_item = << >>
    /\ rec_tree = << >>
    /\ rec_report = << >>
    /\ rec_self = << >>
    /\ rec_pc = "idle"

\* no loop of probes has been entered
ProbesIdle ==
    /\ pr_idx = 0
    /\ pr_in_flight = { }
    /\ pr_log = << >>
    /\ pr_success = "unbound"
    /\ pr_results = << >>

AuxIdle == PortsIdle /\ SeedNodesIdle /\ GenIdle /\ RecordIdle /\ ProbesIdle

----------------------------------------------------------------------------
(* Bounds of the model *)

\* longest list handed to filter_duplicate_domains in SpecDedup
MaxLen == 3

\* SpecElectrums: most static servers in a coin's file, most observations
\* (tag, url, timestamp) in a coin's liveness report
GeMaxServers == 2
GeMaxObs == 2

\* Spec: most coin definitions in the coins file, most server entries in
\* the per-coin files together, most observations in the liveness report
MaxCoins == 2
MaxServers == 2
MaxObs == 2

----------------------------------------------------------------------------
(* Python str as a sequence of characters *)

\* the characters used, in code-point order ('.' 46, '/' 47, digits, ':' 58,
\* lower-case letters)
Alphabet ==
    << ".", "/", "0", "1", "2", "3", "4", "5", "6", "7", "8", "9", ":",
       "a", "b", "c", "d", "e", "f", "g", "h", "i", "j", "k", "l", "m",
       "n", "o", "p", "q", "r", "s", "t", "u", "v", "w", "x", "y", "z" >>

Code(c) == CHOOSE i \in 1..Len(Alphabet) : Alphabet[i] = c

\* str.startswith(prefix)
StartsWith(s, prefix) ==
    /\ Len(prefix) <= Len(s)
    /\ \A i \in 1..Len(prefix) : s[i] = prefix[i]

\* s.split(":")[0] : the text before the first colon (all of s without one)
SplitColonFirst(s) ==
    IF \E i \in 1..Len(s) : s[i] = ":"
    THEN LET p == CHOOSE i \in 1..Len(s) :
                     /\ s[i] = ":"
                     /\ \A j \in 1..(i-1) : s[j] # ":"
         IN  SubSeq(s, 1, p - 1)
    ELSE s

\* a < b for Python str (lexicographic by code point)
StrLess(a, b) ==
    \E i \in 1..(Len(a) + 1) :
        /\ i <= Len(b)
        /\ \A j \in 1..(i-1) : j <= Len(a) /\ a[j] = b[j]
        /\ (i = Len(a) + 1 \/ Code(a[i]) < Code(b[i]))

----------------------------------------------------------------------------
(* The endpoint URLs of the model *)

Host_xcom == << "x", ".", "c", "o", "m" >>
Host_xco  == << "x", ".", "c", "o" >>
Colon     == << ":" >>

Url_x1 == Host_xcom \o Colon \o << "5", "0", "0", "0", "1" >>
Url_x2 == Host_xcom \o Colon \o << "5", "0", "0", "0", "2" >>
Url_x3 == Host_xcom \o Colon \o << "5", "0", "0", "0", "3" >>
Url_p1 == Host_xco  \o Colon \o << "5", "0", "0", "0", "1" >>
\* the same endpoints written with a scheme prefix
Url_ssl_x2 == << "s", "s", "l", ":", "/", "/" >> \o Url_x2
Url_tcp_x1 == << "t", "c", "p", ":", "/", "/" >> \o Url_x1

DedupUrls == { Url_x1, Url_x2, Url_x3, Url_p1, Url_ssl_x2, Url_tcp_x1 }

Protocols == { "TCP", "SSL", "WSS" }

\* Electrum entries: dicts with a url and a protocol
DedupEntries == [ url : DedupUrls, protocol : Protocols ]

SeqsUpTo(S, n) == UNION { [1..k -> S] : k \in 0..n }

----------------------------------------------------------------------------
(* filter_duplicate_domains *)

\* list.remove(e): drop the first element equal to e
ListRemove(s, e) ==
    LET p == CHOOSE i \in 1..Len(s) :
                 /\ s[i] = e
                 /\ \A j \in 1..(i-1) : s[j] # e
    IN  SubSeq(s, 1, p - 1) \o SubSeq(s, p + 1, Len(s))

\* keys of the dict "domains" in insertion order: the domains in order of
\* first appearance
RECURSIVE DomainKeys(_, _)
DomainKeys(electrums, acc) ==
    IF electrums = << >> THEN acc
    ELSE LET d == SplitColonFirst(Head(electrums)["url"])
         IN  DomainKeys(Tail(electrums),
                        IF \E k \in 1..Len(acc) : acc[k] = d
                        THEN acc ELSE Append(acc, d))

\* "P" in domains[d] : some entry of the list has domain d and protocol P
DomainHas(electrums, d, P) ==
    \E k \in 1..Len(electrums) :
        /\ SplitColonFirst(electrums[k]["url"]) = d
        /\ electrums[k]["protocol"] = P

\* RemoveTcpLoop with the protocol test inverted: drops the SSL entries
RECURSIVE RemoveTcpLoop_dropsSsl(_, _, _)
RemoveTcpLoop_dropsSsl(electrums, i, idx) ==
    IF idx > Len(electrums) THEN electrums
    ELSE LET e == electrums[idx]
         IN  IF StartsWith(e["url"], i) /\ e["protocol"] = "SSL"
             THEN RemoveTcpLoop_dropsSsl(ListRemove(electrums, e), i, idx + 1)
             ELSE RemoveTcpLoop_dropsSsl(electrums, i, idx + 1)

\* for e in electrums: if e["url"].startswith(i) and e["protocol"] == "TCP":
\*     electrums.remove(e)
\* The list iterator keeps an index into the list being mutated: idx is the
\* (1-based) position of the next element it yields.
RECURSIVE RemoveTcpLoop(_, _, _)
RemoveTcpLoop(electrums, i, idx) ==
    IF idx > Len(electrums) THEN electrums
    ELSE LET e == electrums[idx]
         IN  IF StartsWith(e["url"], i) /\ e["protocol"] = "TCP"
             THEN RemoveTcpLoop(ListRemove(electrums, e), i, idx + 1)
             ELSE RemoveTcpLoop(electrums, i, idx + 1)

\* for i in domains: if "SSL" in domains[i] and "TCP" in domains[i]: ...
\* domains is built from the list as passed in (orig), before any removal
RECURSIVE DomainLoop(_, _, _)
DomainLoop(electrums, orig, keys) ==
    IF keys = << >> THEN electrums
    ELSE LET i == Head(keys)
         IN  IF DomainHas(orig, i, "SSL") /\ DomainHas(orig, i, "TCP")
             THEN DomainLoop(RemoveTcpLoop(electrums, i, 1), orig, Tail(keys))
             ELSE DomainLoop(electrums, orig, Tail(keys))

filter_duplicate_domains(electrums) ==
    DomainLoop(electrums, electrums, DomainKeys(electrums, << >>))

----------------------------------------------------------------------------
(* Python dict helpers *)

HasKey(d, k) == k \in DOMAIN d

\* d[k] = v
DictPut(d, k, v) == [ x \in (DOMAIN d) \cup {k} |-> IF x = k THEN v ELSE d[x] ]

\* del d[k]
DictDel(d, k) == [ x \in (DOMAIN d) \ {k} |-> d[x] ]

----------------------------------------------------------------------------
(* CoinConfig.get_electrums: the reconciliation loop *)

\* current_time = time.time() at import; a fixed run time in the model
CurrentTime == 1000000

\* 1 week grace period
GracePeriod == 604800

\* the transport tags of the scan report, in the order the loop visits them
ScanTags == << "tcp", "ssl", "wss" >>

ScanTagSet == { ScanTags[i] : i \in 1..Len(ScanTags) }

\* x.upper() on the three tags
Upper(x) ==
    CASE x = "tcp" -> "TCP"
      [] x = "ssl" -> "SSL"
      [] x = "wss" -> "WSS"

\* the same test with the edge of the grace period counted as fresh
IsFresh_inclusive(v) == CurrentTime - v["last_connection"] <= GracePeriod

\* current_time - v["last_connection"] < 604800
IsFresh(v) == CurrentTime - v["last_connection"] < GracePeriod

\* the websocket copy keeps the observed tag (e["protocol"] = "WSS" left out)
WsVariant_keepsTag(electrum, k) ==
    IF HasKey(electrum, "ws_url")
    THEN IF electrum["ws_url"] = k
         THEN << DictDel(DictPut(electrum, "url", k), "ws_url") >>
         ELSE << >>
    ELSE << >>

\* the first copy appended twice
UrlVariant_twice(electrum, k) ==
    IF HasKey(electrum, "url")
    THEN IF electrum["url"] = k
         THEN LET e == IF HasKey(electrum, "ws_url")
                       THEN DictDel(electrum, "ws_url") ELSE electrum
              IN  << e, e >>
         ELSE << >>
    ELSE << >>

\* first copy: e = deepcopy(electrum); if "url" in e and e["url"] == k:
\* drop ws_url, append.  electrum already carries protocol = x.upper().
UrlVariant(electrum, k) ==
    IF HasKey(electrum, "url")
    THEN IF electrum["url"] = k
         THEN << IF HasKey(electrum, "ws_url")
                 THEN DictDel(electrum, "ws_url") ELSE electrum >>
         ELSE << >>
    ELSE << >>

\* second copy: e = deepcopy(electrum); if "ws_url" in e: protocol = "WSS";
\* if e["ws_url"] == k: url = k, drop ws_url, append
WsVariant(electrum, k) ==
    IF HasKey(electrum, "ws_url")
    THEN LET e == DictPut(electrum, "protocol", "WSS")
         IN  IF e["ws_url"] = k
             THEN << DictDel(DictPut(e, "url", k), "ws_url") >>
             ELSE << >>
    ELSE << >>

\* for electrum in electrums: electrum["protocol"] = x.upper(); ...
RECURSIVE ElectrumLoop(_, _, _)
ElectrumLoop(electrums, x, k) ==
    IF electrums = << >> THEN << >>
    ELSE LET electrum == DictPut(Head(electrums), "protocol", Upper(x))
         IN  UrlVariant(electrum, k) \o WsVariant(electrum, k)
                 \o ElectrumLoop(Tail(electrums), x, k)

\* for k, v in report[coin][x].items(): if fresh: ...
\* items is the dict in insertion order, a sequence of [k, v]
RECURSIVE ItemsLoop(_, _, _)
ItemsLoop(electrums, x, items) ==
    IF items = << >> THEN << >>
    ELSE LET k == Head(items).k
             v == Head(items).v
         IN  (IF IsFresh(v) THEN ElectrumLoop(electrums, x, k) ELSE << >>)
                 \o ItemsLoop(electrums, x, Tail(items))

\* for x in ["tcp", "ssl", "wss"]: ...
RECURSIVE TagLoop(_, _, _)
TagLoop(electrums, report_coin, tags) ==
    IF tags = << >> THEN << >>
    ELSE ItemsLoop(electrums, Head(tags), report_coin[Head(tags)])
             \o TagLoop(electrums, report_coin, Tail(tags))

\* sorted(data, key=lambda x: x[sort_key]) with sort_key = "url": a stable
\* sort, so entries with equal url keep their order
RECURSIVE InsertByKey(_, _, _)
InsertByKey(sorted, e, sort_key) ==
    IF sorted = << >> THEN << e >>
    ELSE IF StrLess(e[sort_key], Head(sorted)[sort_key])
         THEN << e >> \o sorted
         ELSE << Head(sorted) >> \o InsertByKey(Tail(sorted), e, sort_key)

RECURSIVE SortFrom(_, _, _)
SortFrom(acc, data, sort_key) ==
    IF data = << >> THEN acc
    ELSE SortFrom(InsertByKey(acc, Head(data), sort_key), Tail(data), sort_key)

\* a sort whose order is not the same in every run
sort_dicts_list_perRun(data, sort_key) ==
    LET sorted == SortFrom(<< >>, data, sort_key)
    IN  IF second_run
        THEN [ i \in 1..Len(sorted) |-> sorted[Len(sorted) + 1 - i] ]
        ELSE sorted

sort_dicts_list(data, sort_key) == SortFrom(<< >>, data, sort_key)

\* lines 403-426: valid_electrums for a coin that is in the scan report
valid_electrums(electrums, report_coin) ==
    LET found == TagLoop(electrums, report_coin, ScanTags)
    IN  IF Len(found) > 0 THEN sort_dicts_list(found, "url") ELSE found

----------------------------------------------------------------------------
(* More of Python str *)

\* s.replace(old, new): every non-overlapping occurrence, left to right
RECURSIVE StrReplace(_, _, _)
StrReplace(s, old, new) ==
    IF Len(s) < Len(old) THEN s
    ELSE IF StartsWith(s, old)
         THEN new \o StrReplace(SubSeq(s, Len(old) + 1, Len(s)), old, new)
         ELSE << Head(s) >> \o StrReplace(Tail(s), old, new)

\* s.find(sub) > -1
StrContains(s, sub) ==
    \E i \in 0..(Len(s) - Len(sub)) : SubSeq(s, i + 1, i + Len(sub)) = sub

\* Python None
None == << "None" >>

----------------------------------------------------------------------------
(* Names: tickers, platforms and file names are str *)

T_KMD  == << "K", "M", "D" >>
T_ETH  == << "E", "T", "H" >>
T_ARRR == << "A", "R", "R", "R" >>
T_ATOM == << "A", "T", "O", "M" >>
T_QTUM == << "Q", "T", "U", "M" >>
T_tQTUM == << "t", "Q", "T", "U", "M" >>
T_RBTC == << "R", "B", "T", "C" >>
T_RSK  == << "R", "S", "K" >>
T_IRIS == << "I", "R", "I", "S" >>
T_OSMO == << "O", "S", "M", "O" >>
T_IRISTEST == << "I", "R", "I", "S", "T", "E", "S", "T" >>
T_NUCLEUSTEST == << "N", "U", "C", "L", "E", "U", "S", "T", "E", "S", "T" >>
T_SC   == << "S", "C" >>
T_UBQ  == << "U", "B", "Q" >>
Sfx_TEST   == << "-", "T", "E", "S", "T" >>
Sfx_segwit == << "-", "s", "e", "g", "w", "i", "t" >>
Pfx_IBC    == << "I", "B", "C", "_" >>

\* self.protocols, an ordered dict: << key, value >> in insertion order
protocols ==
    << << << "A", "V", "A", "X" >>, "AVX-20" >>,
       << << "B", "N", "B" >>, "BEP-20" >>,
       << << "E", "T", "C" >>, "Ethereum Classic" >>,
       << T_ETH, "ERC-20" >>,
       << << "E", "T", "H", "-", "A", "R", "B", "2", "0" >>, "Arbitrum" >>,
       << << "E", "W", "T" >>, "EWT" >>,
       << << "F", "T", "M" >>, "FTM-20" >>,
       << << "G", "L", "M", "R" >>, "Moonbeam" >>,
       << << "H", "T" >>, "HecoChain" >>,
       << << "K", "C", "S" >>, "KRC-20" >>,
       << << "M", "A", "T", "I", "C" >>, "Matic" >>,
       << << "M", "O", "V", "R" >>, "Moonriver" >>,
       << << "O", "N", "E" >>, "HRC-20" >>,
       << T_QTUM, "QRC-20" >>,
       << T_RBTC, "RSK Smart Bitcoin" >>,
       << << "S", "B", "C", "H" >>, "SmartBCH" >>,
       << T_ATOM, "TENDERMINT" >>,
       << T_OSMO, "TENDERMINT" >>,
       << T_IRIS, "TENDERMINT" >>,
       << T_UBQ, "Ubiq" >> >>

\* self.testnet_protocols
testnet_protocols ==
    << << << "A", "V", "A", "X", "T" >>, "AVX-20" >>,
       << << "B", "N", "B", "T" >>, "BEP-20" >>,
       << << "F", "T", "M", "T" >>, "FTM-20" >>,
       << T_tQTUM, "QRC-20" >>,
       << T_IRISTEST, "TENDERMINT" >>,
       << T_NUCLEUSTEST, "TENDERMINT" >>,
       << << "M", "A", "T", "I", "C", "T", "E", "S", "T" >>, "Matic" >>,
       << T_UBQ, "Ubiq" >> >>

\* k in table
TableHas(table, k) == \E n \in 1..Len(table) : table[n][1] = k

\* table[k]
TableGet(table, k) ==
    table[CHOOSE n \in 1..Len(table) : table[n][1] = k][2]

\* v in list(table.values())
TableHasValue(table, v) == \E n \in 1..Len(table) : table[n][2] = v

\* the key of the last entry with value v
TableKeyOfValue_last(table, v) ==
    table[CHOOSE n \in 1..Len(table) :
              /\ table[n][2] = v
              /\ \A m \in (n+1)..Len(table) : table[m][2] # v][1]

\* key_list[value_list.index(v)]: the key of the first entry with value v
TableKeyOfValue(table, v) ==
    table[CHOOSE n \in 1..Len(table) :
              /\ table[n][2] = v
              /\ \A m \in 1..(n-1) : table[m][2] # v][1]

----------------------------------------------------------------------------
(* CoinConfig.  self is a record: coin_data, ticker, is_testnet, coin_type, *)
(* parent_coin, data (the value of self.data[self.ticker]) and ok (FALSE   *)
(* once a step raised an uncaught exception).  tree holds the directories  *)
(* of the repository read at import: electrums, ethereum, tendermint and   *)
(* light_wallet_d, each a dict file name -> parsed JSON.                   *)

\* is_testnet_network
is_testnet_network(coin_data) ==
    IF HasKey(coin_data, "is_testnet") THEN coin_data["is_testnet"] ELSE FALSE

Raise(self) == [ self EXCEPT !.ok = FALSE ]

\* self.data[self.ticker].update({k: v})
Update(self, k, v) == [ self EXCEPT !.data = DictPut(self.data, k, v) ]

\* CoinConfig.__init__
CoinConfigInit(coin_data, tree) ==
    LET is_testnet == is_testnet_network(coin_data)
        ticker == StrReplace(coin_data["coin"], Sfx_TEST, << >>)
        coin_type == coin_data["protocol"]["type"]
        base == [ coin |-> ticker,
                  type |-> "",
                  name |-> "",
                  coinpaprika_id |-> "",
                  coingecko_id |-> "",
                  livecoinwatch_id |-> "",
                  explorer_url |-> "",
                  explorer_tx_url |-> "",
                  explorer_address_url |-> "",
                  supported |-> << >>,
                  active |-> FALSE,
                  is_testnet |-> is_testnet,
                  currently_enabled |-> FALSE,
                  wallet_only |-> FALSE ]
        self == [ coin_data |-> coin_data,
                  ticker |-> ticker,
                  is_testnet |-> is_testnet,
                  coin_type |-> coin_type,
                  parent_coin |-> None,
                  data |-> base,
                  ok |-> TRUE ]
    IN  IF coin_type \in { "UTXO", "QRC20", "QTUM", "SIA" }
        THEN IF HasKey(coin_data, "sign_message_prefix")
             THEN Update(self, "sign_message_prefix",
                         coin_data["sign_message_prefix"])
             ELSE self
        ELSE IF coin_type \in { "ZHTLC" }
        THEN IF HasKey(tree.light_wallet_d, ticker)
             THEN Update(self, "light_wallet_d_servers",
                         tree.light_wallet_d[ticker])
             ELSE Update(self, "light_wallet_d_servers", << >>)
        ELSE IF coin_type \in { "SIA" }
        THEN Update(self, "nodes", << "SIA" >>)
        ELSE self

\* get_generics: copy every key of coin_data that data does not have yet
get_generics(self) ==
    [ self EXCEPT !.data =
        [ i \in (DOMAIN self.data) \cup (DOMAIN self.coin_data) |->
            IF i \in DOMAIN self.data THEN self.data[i] ELSE self.coin_data[i] ] ]

\* value returned by get_parent_coin
ParentCoinValue(self) ==
    LET token_type == self.data["type"]
        tendermint_hit ==
            IF self.coin_type \in { "TENDERMINTTOKEN", "TENDERMINT" }
            THEN IF StrContains(self.ticker, T_IRISTEST) THEN T_IRISTEST
                 ELSE IF StrContains(self.ticker, T_NUCLEUSTEST) THEN T_NUCLEUSTEST
                 ELSE IF StrContains(self.ticker, Pfx_IBC \o T_IRIS) THEN T_IRIS
                 ELSE IF StrContains(self.ticker, Pfx_IBC \o T_ATOM) THEN T_ATOM
                 ELSE IF StrContains(self.ticker, Pfx_IBC \o T_OSMO) THEN T_OSMO
                 ELSE None
            ELSE None
        table == IF self.data["is_testnet"] THEN testnet_protocols ELSE protocols
    IN  IF self.ticker = T_RBTC THEN T_RSK
        ELSE IF tendermint_hit # None THEN tendermint_hit
        ELSE IF self.coin_type \notin { "UTXO", "ZHTLC", "BCH", "QTUM" }
        THEN IF TableHas(table, self.ticker) THEN self.ticker
             ELSE IF TableHasValue(table, token_type)
                  THEN TableKeyOfValue(table, token_type)
                  ELSE None
        ELSE None

\* get_parent_coin also sets self.is_testnet for the two Tendermint testnets
get_parent_coin(self) ==
    LET testnet_hit ==
            /\ self.ticker # T_RBTC
            /\ self.coin_type \in { "TENDERMINTTOKEN", "TENDERMINT" }
            /\ \/ StrContains(self.ticker, T_IRISTEST)
               \/ StrContains(self.ticker, T_NUCLEUSTEST)
    IN  [ self EXCEPT !.parent_coin = ParentCoinValue(self),
                      !.is_testnet = IF testnet_hit THEN TRUE ELSE @ ]

\* get_protocol_info, first part (lines 207-245): type from protocol_data
ProtocolData(self) ==
    LET protocol == self.coin_data["protocol"]
    IN  IF HasKey(protocol, "protocol_data")
        THEN LET protocol_data == protocol["protocol_data"]
                 s1 == IF HasKey(protocol_data, "consensus_params")
                       THEN Update(self, "type", self.coin_type) ELSE self
             IN  IF HasKey(protocol_data, "check_point_block")
                 THEN LET cp == protocol_data["check_point_block"]
                          s2 == IF HasKey(cp, "height")
                                THEN Update(s1, "checkpoint_height", cp["height"])
                                ELSE s1
                      IN  IF HasKey(cp, "time")
                          THEN Update(s2, "checkpoint_blocktime", cp["time"])
                          ELSE s2
                 ELSE IF HasKey(protocol_data, "platform")
                 THEN LET platform == protocol_data["platform"]
                          table == IF s1.is_testnet THEN testnet_protocols
                                   ELSE protocols
                      IN  IF ~TableHas(table, platform) THEN Raise(s1)
                          ELSE LET s3 == Update(s1, "type", TableGet(table, platform))
                               IN  IF HasKey(protocol_data, "contract_address")
                                   THEN Update(s3, "contract_address",
                                               protocol_data["contract_address"])
                                   ELSE s3
                 ELSE s1
        ELSE Update(self, "type", self.coin_type)

\* get_protocol_info, last part (lines 252-267): type of ETH/QTUM and
\* Tendermint coins
FamilyType(self) ==
    LET raw == self.coin_data["protocol"]["type"]
    IN  IF raw \in { "ETH", "QTUM" }
        THEN Update(self, "type",
                 IF TableHas(protocols, self.ticker)
                 THEN TableGet(protocols, self.ticker)
                 ELSE IF TableHas(testnet_protocols, self.ticker)
                 THEN TableGet(testnet_protocols, self.ticker)
                 ELSE IF TableHas(protocols, self.parent_coin)
                 THEN TableGet(protocols, self.parent_coin)
                 ELSE IF TableHas(testnet_protocols, self.parent_coin)
                 THEN TableGet(testnet_protocols, self.parent_coin)
                 ELSE raw)
        ELSE IF raw \in { "TENDERMINT", "TENDERMINTTOKEN" }
        THEN Update(self, "type", raw)
        ELSE self

\* lines 247-250: self.parent_coin, and the parent_coin key of the record
ParentCoinStep(self) ==
    IF ~self.ok THEN self
    ELSE IF /\ ParentCoinValue(self) # None
            /\ ParentCoinValue(self) # << >>
            /\ ParentCoinValue(self) # self.ticker
         THEN Update(get_parent_coin(self), "parent_coin", ParentCoinValue(self))
         ELSE get_parent_coin(self)

FamilyTypeStep(self) == IF self.ok THEN FamilyType(self) ELSE self

get_protocol_info(self) == FamilyTypeStep(ParentCoinStep(ProtocolData(self)))

\* clean_name
clean_name(self) == Update(self, "name", self.coin_data["fname"])

\* get_swap_contracts
get_swap_contracts(self, tree) ==
    LET tendermint == self.data["type"] \in { "TENDERMINT", "TENDERMINTTOKEN" }
        \* which file is opened: << directory, name >>, or none
        source ==
            IF HasKey(tree.ethereum, self.ticker)
            THEN << "ethereum", self.ticker >>
            ELSE IF tendermint
            THEN << "tendermint", self.parent_coin >>
            ELSE IF ~HasKey(tree.electrums, self.ticker) /\ self.parent_coin # None
            THEN << "ethereum", self.parent_coin >>
            ELSE << >>
    IN  IF source = << >> THEN self
        ELSE IF ~HasKey(tree[source[1]], source[2]) THEN Raise(self)
        ELSE LET contract_data == tree[source[1]][source[2]]
                 s1 == IF HasKey(contract_data, "swap_contract_address")
                       THEN Update(self, "swap_contract_address",
                                   contract_data["swap_contract_address"])
                       ELSE self
                 s2 == IF HasKey(contract_data, "fallback_swap_contract")
                       THEN Update(s1, "fallback_swap_contract",
                                   contract_data["fallback_swap_contract"])
                       ELSE s1
             IN  IF DOMAIN contract_data = {} THEN self
                 ELSE IF HasKey(contract_data, "rpc_nodes")
                 THEN Update(s2, IF tendermint THEN "rpc_urls" ELSE "nodes",
                             sort_dicts_list(contract_data["rpc_nodes"], "url"))
                 ELSE s2

\* get_electrums with the SIA branch taken for every coin outside the report
\* and the static list also stored under nodes for a coin in it
get_electrums_alsoNodes(self, tree, report) ==
    LET plain == StrReplace(self.ticker, Sfx_segwit, << >>)
        coin == IF self.data["type"] = "QRC-20"
                THEN IF self.is_testnet THEN T_tQTUM ELSE T_QTUM
                ELSE plain
        \* electrums is bound only when the file exists
        bound == HasKey(tree.electrums, coin)
    IN  IF HasKey(report, coin)
        THEN IF ~bound
             THEN IF \E x \in { "tcp", "ssl", "wss" } : \E n \in
                         1..Len(report[coin][x]) :
                         IsFresh(report[coin][x][n].v)
                  THEN Raise(self)
                  ELSE Update(self, "electrum", << >>)
             ELSE Update(Update(self, "nodes", tree.electrums[coin]), "electrum",
                         valid_electrums(tree.electrums[coin],
                                         report[coin]))
        ELSE IF self.coin_type \in { "SIA" }
        THEN IF bound THEN Update(self, "nodes", tree.electrums[coin])
             ELSE Raise(self)
        ELSE self

\* get_electrums
get_electrums(self, tree, report) ==
    LET plain == StrReplace(self.ticker, Sfx_segwit, << >>)
        coin == IF self.data["type"] = "QRC-20"
                THEN IF self.is_testnet THEN T_tQTUM ELSE T_QTUM
                ELSE plain
        \* electrums is bound only when the file exists
        bound == HasKey(tree.electrums, coin)
    IN  IF HasKey(report, coin)
        THEN IF ~bound
             THEN IF \E x \in { "tcp", "ssl", "wss" } : \E n \in
                         1..Len(report[coin][x]) :
                         IsFresh(report[coin][x][n].v)
                  THEN Raise(self)
                  ELSE Update(self, "electrum", << >>)
             ELSE Update(self, "electrum",
                         valid_electrums(tree.electrums[coin],
                                         report[coin]))
        ELSE IF self.coin_type \in { "SIA" }
        THEN IF bound THEN Update(self, "nodes", tree.electrums[coin])
             ELSE Raise(self)
        ELSE self

\* is_smartchain
is_smartchain(self) ==
    IF HasKey(self.coin_data, "sign_message_prefix")
    THEN IF self.coin_data["sign_message_prefix"] = "Komodo Signed Message:\n"
         THEN Update(self, "type", "Smart Chain")
         ELSE self
    ELSE self

\* is_wallet_only
is_wallet_only(self) ==
    IF HasKey(self.coin_data, "wallet_only")
    THEN Update(self, "wallet_only", self.coin_data["wallet_only"])
    ELSE self

\* a step of the loop body runs only when no earlier step raised
SwapContractsStep(self, tree) ==
    IF self.ok THEN get_swap_contracts(clean_name(self), tree) ELSE self

ElectrumsStep(self, tree, report) ==
    IF self.ok THEN get_electrums(self, tree, report) ELSE self

FlagsStep(self) ==
    IF self.ok THEN is_wallet_only(is_smartchain(self)) ELSE self

\* the body of the loop of parse_coins_repo (lines 503-522) for one item.
\* The steps after is_wallet_only (address format, rewards, alias, asset,
\* price ids, HD info, links, explorers) add keys that no later step of the
\* pipeline reads and are left out.
BuildCoinConfig(item, tree, report) ==
    FlagsStep(
        ElectrumsStep(
            SwapContractsStep(
                get_protocol_info(get_generics(CoinConfigInit(item, tree))),
                tree),
            tree, report))

----------------------------------------------------------------------------
(* parse_coins_repo: the exclusion list *)

NodataFields == << "nodes", "electrum", "light_wallet_d_servers", "rpc_urls" >>

\* lines 530-539 for one coin: the coin is appended once for each server
\* field that is present and empty, and once more when it has none of
\* nodes, electrum and rpc_urls
RECURSIVE NodataFieldLoop(_, _, _)
NodataFieldLoop(rec, coin, fields) ==
    IF fields = << >> THEN << >>
    ELSE (IF HasKey(rec, Head(fields))
          THEN IF Len(rec[Head(fields)]) = 0 THEN << coin >> ELSE << >>
          ELSE << >>) \o NodataFieldLoop(rec, coin, Tail(fields))

\* NodataOfCoin without the test for present but empty fields
NodataOfCoin_onlyMissing(rec, coin) ==
    IF /\ ~HasKey(rec, "nodes")
       /\ ~HasKey(rec, "electrum")
       /\ ~HasKey(rec, "rpc_urls")
    THEN << coin >> ELSE << >>

NodataOfCoin(rec, coin) ==
    NodataFieldLoop(rec, coin, NodataFields)
        \o (IF /\ ~HasKey(rec, "nodes")
               /\ ~HasKey(rec, "electrum")
               /\ ~HasKey(rec, "rpc_urls")
            THEN << coin >> ELSE << >>)

\* for coin in coins_config: ... ; order is the key order of the dict
RECURSIVE NodataLoop(_, _)
NodataLoop(config, order) ==
    IF order = << >> THEN << >>
    ELSE NodataOfCoin(config[Head(order)], Head(order))
             \o NodataLoop(config, Tail(order))

\* keys of coins_config in insertion order: tickers in order of first
\* appearance among the items parsed so far
RECURSIVE TickerOrder(_, _)
TickerOrder(items, acc) ==
    IF items = << >> THEN acc
    ELSE LET t == StrReplace(Head(items)["coin"], Sfx_TEST, << >>)
         IN  TickerOrder(Tail(items),
                         IF \E n \in 1..Len(acc) : acc[n] = t
                         THEN acc ELSE Append(acc, t))

\* main, lines 1097-1098: for coin in names: del coins_config[coin].
\* << ok, config >>; ok is FALSE when a del raised KeyError
RECURSIVE RemoveLoop(_, _)
RemoveLoop(config, names) ==
    IF names = << >> THEN << TRUE, config >>
    ELSE IF ~HasKey(config, Head(names)) THEN << FALSE, config >>
    ELSE RemoveLoop(DictDel(config, Head(names)), Tail(names))

----------------------------------------------------------------------------
(* The protocol filters.  Each works on its own deep copy of the canonical *)
(* map; coins_config_x[coin] is the very dict coins_config[coin] of that   *)
(* copy, so a test on coins_config_x[coin]["electrum"] made before the     *)
(* assignment reads the unfiltered list.                                   *)

Https == << "h", "t", "t", "p", "s" >>

IsSslEntry(i) == HasKey(i, "protocol") /\ i["protocol"] = "SSL"
IsWssEntry(i) == HasKey(i, "protocol") /\ i["protocol"] = "WSS"
IsHttpsNode(i) == StartsWith(i["url"], Https)
IsHttpsUrl(i) == StartsWith(i, Https)
HasWsUrl(i) == HasKey(i, "ws_url")
NotProxyNode(i) == ~HasKey(i, "komodo_proxy")

\* filter_ssl with the https test on nodes left out
FilterSslCoin_keepsNodes(rec) ==
    LET has == HasKey(rec, "electrum")
        electrums == IF has THEN SelectSeq(rec["electrum"], IsSslEntry) ELSE << >>
        deleted == has /\ Len(rec["electrum"]) = 0
        r1 == IF has /\ ~deleted
              THEN DictPut(rec, "electrum", filter_duplicate_domains(electrums))
              ELSE rec
        r3 == IF HasKey(rec, "light_wallet_d_servers")
              THEN DictPut(r1, "light_wallet_d_servers",
                           SelectSeq(rec["light_wallet_d_servers"], IsHttpsUrl))
              ELSE r1
    IN  [ status |-> IF deleted /\ (HasKey(rec, "nodes")
                                     \/ HasKey(rec, "light_wallet_d_servers"))
                     THEN "raise"
                     ELSE IF deleted THEN "drop" ELSE "keep",
          rec |-> r3 ]

\* filter_ssl, the body of its loop for one coin.  status: "keep", "drop"
\* (del coins_config_ssl[coin]) or "raise" (the nodes or light_wallet_d
\* assignment after the del raises KeyError)
FilterSslCoin(rec) ==
    LET has == HasKey(rec, "electrum")
        electrums == IF has THEN SelectSeq(rec["electrum"], IsSslEntry) ELSE << >>
        deleted == has /\ Len(rec["electrum"]) = 0
        r1 == IF has /\ ~deleted
              THEN DictPut(rec, "electrum", filter_duplicate_domains(electrums))
              ELSE rec
        r2 == IF HasKey(rec, "nodes")
              THEN DictPut(r1, "nodes", SelectSeq(rec["nodes"], IsHttpsNode))
              ELSE r1
        r3 == IF HasKey(rec, "light_wallet_d_servers")
              THEN DictPut(r2, "light_wallet_d_servers",
                           SelectSeq(rec["light_wallet_d_servers"], IsHttpsUrl))
              ELSE r2
    IN  [ status |-> IF deleted /\ (HasKey(rec, "nodes")
                                     \/ HasKey(rec, "light_wallet_d_servers"))
                     THEN "raise"
                     ELSE IF deleted THEN "drop" ELSE "keep",
          rec |-> r3 ]

\* filter_wss with the test for an empty result left out
FilterWssCoin_keepsEmpty(rec) ==
    IF HasKey(rec, "electrum")
    THEN [ status |-> "keep",
           rec |-> DictPut(rec, "electrum", SelectSeq(rec["electrum"], IsWssEntry)) ]
    ELSE IF HasKey(rec, "nodes")
    THEN [ status |-> "keep",
           rec |-> DictPut(rec, "nodes", SelectSeq(rec["nodes"], HasWsUrl)) ]
    ELSE [ status |-> "keep", rec |-> rec ]

\* filter_wss, the body of its loop for one coin
FilterWssCoin(rec) ==
    IF HasKey(rec, "electrum")
    THEN LET electrums == SelectSeq(rec["electrum"], IsWssEntry)
         IN  IF Len(electrums) > 0
             THEN [ status |-> "keep", rec |-> DictPut(rec, "electrum", electrums) ]
             ELSE [ status |-> "drop", rec |-> rec ]
    ELSE IF HasKey(rec, "nodes")
    THEN LET nodes == SelectSeq(rec["nodes"], HasWsUrl)
         IN  IF Len(nodes) > 0
             THEN [ status |-> "keep", rec |-> DictPut(rec, "nodes", nodes) ]
             ELSE [ status |-> "drop", rec |-> rec ]
    ELSE [ status |-> "keep", rec |-> rec ]

\* item_exists
item_exists(i, electrums) ==
    \E n \in 1..Len(electrums) :
        \/ /\ HasKey(electrums[n], "url") /\ HasKey(i, "url")
           /\ i["url"] = electrums[n]["url"]
        \/ /\ HasKey(electrums[n], "ws_url") /\ HasKey(i, "ws_url")
           /\ i["ws_url"] = electrums[n]["ws_url"]

\* the same loop with the test of the protocol left out
RECURSIVE TcpAppendLoop_takesWss(_, _)
TcpAppendLoop_takesWss(electrums, canonical) ==
    IF canonical = << >> THEN electrums
    ELSE LET i == Head(canonical)
             skip == IF HasKey(i, "komodo_proxy")
                     THEN i["komodo_proxy"] = TRUE ELSE FALSE
             take == ~skip /\ ~item_exists(i, electrums)
         IN  TcpAppendLoop_takesWss(IF take THEN Append(electrums, i) ELSE electrums,
                                    Tail(canonical))

\* filter_tcp, lines 641-651: the canonical entries appended to electrums
RECURSIVE TcpAppendLoop(_, _)
TcpAppendLoop(electrums, canonical) ==
    IF canonical = << >> THEN electrums
    ELSE LET i == Head(canonical)
             skip == IF HasKey(i, "komodo_proxy")
                     THEN i["komodo_proxy"] = TRUE ELSE FALSE
             take == /\ ~skip
                     /\ ~item_exists(i, electrums)
                     /\ (HasKey(i, "protocol") => i["protocol"] # "WSS")
         IN  TcpAppendLoop(IF take THEN Append(electrums, i) ELSE electrums,
                           Tail(canonical))

\* filter_tcp with the komodo_proxy test on nodes left out
FilterTcpCoin_keepsProxyNodes(rec, coin, ssl) ==
    LET r1 == rec
        has == HasKey(rec, "electrum")
        shared == /\ has
                  /\ HasKey(ssl, coin)
                  /\ Len(ssl[coin]["electrum"]) > 0
        start == IF shared THEN ssl[coin]["electrum"] ELSE << >>
        appended == IF has THEN TcpAppendLoop(start, rec["electrum"]) ELSE << >>
        deleted == has /\ Len(rec["electrum"]) = 0
        electrums == IF deleted THEN appended
                     ELSE filter_duplicate_domains(appended)
    IN  [ status |-> IF deleted THEN "drop" ELSE "keep",
          rec |-> IF has /\ ~deleted THEN DictPut(r1, "electrum", electrums)
                  ELSE r1,
          shared |-> shared,
          list |-> electrums ]

\* filter_tcp, the body of its loop for one coin (rec: its dict in the deep
\* copy; ssl: the TLS view as passed in).  shared is TRUE when electrums is
\* the list object coins_config_ssl[coin]["electrum"]; list is that object's
\* contents when the iteration ends.
FilterTcpCoin(rec, coin, ssl) ==
    LET r1 == IF HasKey(rec, "nodes")
              THEN DictPut(rec, "nodes", SelectSeq(rec["nodes"], NotProxyNode))
              ELSE rec
        has == HasKey(rec, "electrum")
        shared == /\ has
                  /\ HasKey(ssl, coin)
                  /\ Len(ssl[coin]["electrum"]) > 0
        start == IF shared THEN ssl[coin]["electrum"] ELSE << >>
        appended == IF has THEN TcpAppendLoop(start, rec["electrum"]) ELSE << >>
        deleted == has /\ Len(rec["electrum"]) = 0
        electrums == IF deleted THEN appended
                     ELSE filter_duplicate_domains(appended)
    IN  [ status |-> IF deleted THEN "drop" ELSE "keep",
          rec |-> IF has /\ ~deleted THEN DictPut(r1, "electrum", electrums)
                  ELSE r1,
          shared |-> shared,
          list |-> electrums ]

\* the map a filter returns: the coins kept, each with its filtered record
ViewOf(results) ==
    [ coin \in { c \in DOMAIN results : results[c].status = "keep" } |->
        results[coin].rec ]

----------------------------------------------------------------------------
(* SpecElectrums: get_electrums for one coin, over every bounded static   *)
(* server list and liveness report                                         *)

Host_a == << "a", ".", "e", "x", "a", "m", "p", "l", "e" >>
Host_b == << "b", ".", "e", "x", "a", "m", "p", "l", "e" >>
Url_a1 == Host_a \o Colon \o << "5", "0", "0", "0", "1" >>
Url_a2 == Host_a \o Colon \o << "5", "0", "0", "0", "2" >>
Url_b  == Host_b \o Colon \o << "4", "4", "3" >>

GeUrls == { Url_a1, Url_a2, Url_b }

\* entries of an electrums/<coin> file
GeStatic ==
    { [ url |-> Url_a1 ],
      [ url |-> Url_a2 ],
      [ ws_url |-> Url_b ],
      [ url |-> Url_a2, ws_url |-> Url_b ],
      [ url |-> Url_a1, ws_url |-> Url_a1 ] }

\* a last_connection on the edge of the grace period (stale) and one second
\* inside it (fresh)
StaleStamp == CurrentTime - GracePeriod
FreshStamp == CurrentTime - GracePeriod + 1

\* one observation of the scan: url k answered under tag x at time t
Observations(urls) ==
    [ x : { "tcp", "ssl", "wss" }, k : urls, t : { StaleStamp, FreshStamp } ]

\* the dict report[coin][x], in insertion order, from a scan log
RECURSIVE ItemsOf(_, _)
ItemsOf(log, x) ==
    IF log = << >> THEN << >>
    ELSE (IF Head(log).x = x
          THEN << [ k |-> Head(log).k,
                    v |-> [ last_connection |-> Head(log).t ] ] >>
          ELSE << >>) \o ItemsOf(Tail(log), x)

ReportOf(log) == [ x \in { "tcp", "ssl", "wss" } |-> ItemsOf(log, x) ]

\* scan logs with at most n observations, each (tag, url) observed once
\* (the keys of a dict are distinct)
ScanLogs(urls, n) ==
    { log \in SeqsUpTo(Observations(urls), n) :
        \A i, j \in 1..Len(log) :
            (i # j) => (log[i].x # log[j].x \/ log[i].k # log[j].k) }

InitElectrums ==
    /\ ge_electrums \in SeqsUpTo(GeStatic, GeMaxServers)
    /\ \E log \in ScanLogs(GeUrls, GeMaxObs) : ge_report = ReportOf(log)
    /\ ge_out = << >>
    /\ ge_done = FALSE
    /\ DedupIdle
    /\ MainIdle
    /\ AuxIdle

GetElectrums ==
    /\ ~ge_done
    /\ ge_out' = valid_electrums(ge_electrums, ge_report)
    /\ ge_done' = TRUE
    /\ UNCHANGED <<ge_electrums, ge_report, ddvars, mainvars, auxvars>>

NextElectrums == GetElectrums

SpecElectrums == InitElectrums /\ [][NextElectrums]_vars

----------------------------------------------------------------------------
(* Spec: the run of the generator (main, full run) over a bounded          *)
(* repository and liveness report                                          *)

Item_KMD ==
    [ coin |-> T_KMD, fname |-> "Komodo",
      sign_message_prefix |-> "Komodo Signed Message:\n",
      protocol |-> [ type |-> "UTXO" ] ]

Item_ETH ==
    [ coin |-> T_ETH, fname |-> "Ethereum",
      protocol |-> [ type |-> "ETH", protocol_data |-> [ chain_id |-> 1 ] ] ]

Item_ARRR ==
    [ coin |-> T_ARRR, fname |-> "Pirate",
      protocol |-> [ type |-> "ZHTLC",
                     protocol_data |->
                         [ consensus_params |-> [ coin_type |-> 133 ],
                           check_point_block |-> [ height |-> 1, time |-> 1 ] ] ] ]

Item_ATOM ==
    [ coin |-> T_ATOM, fname |-> "Cosmos",
      protocol |-> [ type |-> "TENDERMINT",
                     protocol_data |-> [ decimals |-> 6 ] ] ]

Item_SC ==
    [ coin |-> T_SC, fname |-> "Siacoin", protocol |-> [ type |-> "SIA" ] ]

\* the coin definitions a coins file is drawn from, in file order
CoinCatalog == << Item_KMD, Item_ETH, Item_ARRR, Item_ATOM, Item_SC >>

\* the elements of a sequence at the positions in S, in order
RECURSIVE Pick(_, _, _)
Pick(seq, S, n) ==
    IF n > Len(seq) THEN << >>
    ELSE (IF n \in S THEN << seq[n] >> ELSE << >>) \o Pick(seq, S, n + 1)

CoinFiles ==
    { Pick(CoinCatalog, S, 1) :
        S \in { S \in SUBSET (1..Len(CoinCatalog)) :
                  Cardinality(S) >= 1 /\ Cardinality(S) <= MaxCoins } }

\* names of the per-coin files the items of a coins file can have
NamesOfType(items, types) ==
    { items[n]["coin"] : n \in { n \in 1..Len(items) :
                                   items[n]["protocol"]["type"] \in types } }

\* entries of electrums/<coin> files
PipeUrls == { Url_x1, Url_x2, Url_x3, Url_p1 }

PipeStatic ==
    { [ url |-> Url_x1 ],
      [ url |-> Url_x2, ws_url |-> Url_x3 ],
      [ url |-> Url_p1 ],
      [ url |-> Url_x2, komodo_proxy |-> TRUE ] }

\* rpc_nodes of ethereum/<coin> and tendermint/<coin> files
Url_https_n1 == Https \o << ":", "/", "/", "n", "1" >>
Url_http_n2  == << "h", "t", "t", "p", ":", "/", "/", "n", "2" >>
Url_wss_n1   == << "w", "s", "s", ":", "/", "/", "n", "1" >>

PipeNodes ==
    { [ url |-> Url_https_n1 ],
      [ url |-> Url_http_n2 ],
      [ url |-> Url_https_n1, ws_url |-> Url_wss_n1 ],
      [ url |-> Url_https_n1, komodo_proxy |-> TRUE ] }

\* urls of light_wallet_d/<coin> files
Url_https_l1 == Https \o << ":", "/", "/", "l", "1" >>
Url_http_l2  == << "h", "t", "t", "p", ":", "/", "/", "l", "2" >>

PipeLightwallet == { Url_https_l1, Url_http_l2 }

\* dicts from some of the names to values
PartialMaps(names, values) == UNION { [ N -> values ] : N \in SUBSET names }

RECURSIVE SumLen(_, _)
SumLen(d, names) ==
    IF names = {} THEN 0
    ELSE LET n == CHOOSE n \in names : TRUE
         IN  Len(d[n]) + SumLen(d, names \ {n})

RECURSIVE SumNodes(_, _)
SumNodes(d, names) ==
    IF names = {} THEN 0
    ELSE LET n == CHOOSE n \in names : TRUE
         IN  Len(d[n]["rpc_nodes"]) + SumNodes(d, names \ {n})

\* number of server entries in the files of a repository
RepoSize(tree) ==
    SumLen(tree.electrums, DOMAIN tree.electrums)
        + SumNodes(tree.ethereum, DOMAIN tree.ethereum)
        + SumNodes(tree.tendermint, DOMAIN tree.tendermint)
        + SumLen(tree.light_wallet_d, DOMAIN tree.light_wallet_d)

ContractFiles ==
    [ swap_contract_address : { "0x" }, rpc_nodes : SeqsUpTo(PipeNodes, MaxServers) ]

\* the repositories for a coins file: at most MaxServers server entries
Repos(items) ==
    { tree \in
        [ electrums : PartialMaps(NamesOfType(items, { "UTXO", "ZHTLC", "SIA" }),
                                  SeqsUpTo(PipeStatic, MaxServers)),
          ethereum : PartialMaps(NamesOfType(items, { "ETH" }), ContractFiles),
          tendermint : PartialMaps(NamesOfType(items, { "TENDERMINT" }),
                                   ContractFiles),
          light_wallet_d : PartialMaps(NamesOfType(items, { "ZHTLC" }),
                                       SeqsUpTo(PipeLightwallet, MaxServers)) ] :
        RepoSize(tree) <= MaxServers }

\* the urls a scan of a file's servers connects to
UrlsOfFile(electrums) ==
    { electrums[n]["url"] : n \in { n \in 1..Len(electrums) :
                                       HasKey(electrums[n], "url") } }
        \cup { electrums[n]["ws_url"] : n \in { n \in 1..Len(electrums) :
                                                 HasKey(electrums[n], "ws_url") } }

\* one observation of the scan of a coin's servers: the servers scanned are
\* those of the coin's electrums file
CoinObservations(tree, names) ==
    { o \in [ coin : names, x : { "tcp", "ssl", "wss" }, k : PipeUrls,
              t : { StaleStamp, FreshStamp } ] :
        o.k \in UrlsOfFile(tree.electrums[o.coin]) }

RECURSIVE CoinItemsOf(_, _, _)
CoinItemsOf(log, coin, x) ==
    IF log = << >> THEN << >>
    ELSE (IF Head(log).coin = coin /\ Head(log).x = x
          THEN << [ k |-> Head(log).k,
                    v |-> [ last_connection |-> Head(log).t ] ] >>
          ELSE << >>) \o CoinItemsOf(Tail(log), coin, x)

\* the liveness reports for a repository: some of the coins with an
\* electrums file are in it, with at most MaxObs observations in all
Reports(tree) ==
    UNION { { [ coin \in names |->
                  [ x \in { "tcp", "ssl", "wss" } |-> CoinItemsOf(log, coin, x) ] ] :
              log \in { log \in SeqsUpTo(CoinObservations(tree, names), MaxObs) :
                          \A i, j \in 1..Len(log) :
                              (i # j) => \/ log[i].coin # log[j].coin
                                         \/ log[i].x # log[j].x
                                         \/ log[i].k # log[j].k } } :
            names \in SUBSET (DOMAIN tree.electrums) }

Init ==
    /\ coins_data \in CoinFiles
    /\ repo \in Repos(coins_data)
    /\ electrum_scan_report \in Reports(repo)
    /\ pc = "parse"
    /\ parse_idx = 1
    /\ coins_config = << >>
    /\ nodata = << >>
    /\ files = << >>
    /\ coins_config_ssl = << >>
    /\ coins_config_wss = << >>
    /\ coins_config_tcp = << >>
    /\ DedupIdle
    /\ ElectrumsIdle
    /\ AuxIdle

\* parse_coins_repo, one iteration of its first loop (lines 502-523)
ParseCoin ==
    /\ pc = "parse"
    /\ parse_idx <= Len(coins_data)
    /\ LET config == BuildCoinConfig(coins_data[parse_idx], repo, electrum_scan_report)
       IN  IF config.ok
           THEN /\ coins_config' = DictPut(coins_config, config.ticker, config.data)
                /\ parse_idx' = parse_idx + 1
                /\ pc' = pc
           ELSE /\ pc' = "crashed"
                /\ UNCHANGED <<coins_config, parse_idx>>
    /\ UNCHANGED <<coins_data, repo, electrum_scan_report, nodata, files,
                   coins_config_ssl, coins_config_wss, coins_config_tcp,
                   ddvars, gevars, auxvars>>

\* parse_coins_repo, its second loop and return (lines 525-549), and the
\* dump of the unfiltered map (lines 1092-1093)
ParseNodata ==
    /\ pc = "parse"
    /\ parse_idx > Len(coins_data)
    /\ nodata' = NodataLoop(coins_config, TickerOrder(coins_data, << >>))
    /\ files' = DictPut(files, "coins_config_unfiltered.json", coins_config)
    /\ pc' = "exclude"
    /\ UNCHANGED <<coins_data, repo, electrum_scan_report, parse_idx, coins_config,
                   coins_config_ssl, coins_config_wss, coins_config_tcp,
                   ddvars, gevars, auxvars>>

\* main, lines 1097-1100: remove the coins of nodata, dump the canonical map
RemoveFailing ==
    /\ pc = "exclude"
    /\ LET r == RemoveLoop(coins_config, nodata)
       IN  IF r[1]
           THEN /\ coins_config' = r[2]
                /\ files' = DictPut(files, "coins_config.json", r[2])
                /\ pc' = "filter_ssl"
           ELSE /\ coins_config' = r[2]
                /\ pc' = "crashed"
                /\ UNCHANGED files
    /\ UNCHANGED <<coins_data, repo, electrum_scan_report, parse_idx, nodata,
                   coins_config_ssl, coins_config_wss, coins_config_tcp,
                   ddvars, gevars, auxvars>>

\* coins_config_ssl = filter_ssl(deepcopy(coins_config))
FilterSsl ==
    /\ pc = "filter_ssl"
    /\ LET results == [ coin \in DOMAIN coins_config |->
                          FilterSslCoin(coins_config[coin]) ]
       IN  IF \E coin \in DOMAIN results : results[coin].status = "raise"
           THEN /\ pc' = "crashed"
                /\ UNCHANGED <<coins_config_ssl, files>>
           ELSE /\ coins_config_ssl' = ViewOf(results)
                /\ files' = DictPut(files, "coins_config_ssl.json", ViewOf(results))
                /\ pc' = "filter_wss"
    /\ UNCHANGED <<coins_data, repo, electrum_scan_report, parse_idx, coins_config,
                   nodata, coins_config_wss, coins_config_tcp, ddvars, gevars, auxvars>>

\* coins_config_wss = filter_wss(deepcopy(coins_config))
FilterWss ==
    /\ pc = "filter_wss"
    /\ LET results == [ coin \in DOMAIN coins_config |->
                          FilterWssCoin(coins_config[coin]) ]
       IN  /\ coins_config_wss' = ViewOf(results)
           /\ files' = DictPut(files, "coins_config_wss.json", ViewOf(results))
    /\ pc' = "filter_tcp"
    /\ UNCHANGED <<coins_data, repo, electrum_scan_report, parse_idx, coins_config,
                   nodata, coins_config_ssl, coins_config_tcp, ddvars, gevars, auxvars>>

\* coins_config_tcp = filter_tcp(deepcopy(coins_config), coins_config_ssl).
\* coins_config_ssl is not copied: where filter_tcp starts from the list
\* coins_config_ssl[coin]["electrum"], its appends and removals are made on
\* that list
FilterTcp ==
    /\ pc = "filter_tcp"
    /\ LET results == [ coin \in DOMAIN coins_config |->
                          FilterTcpCoin(coins_config[coin], coin, coins_config_ssl) ]
       IN  /\ coins_config_tcp' = ViewOf(results)
           /\ files' = DictPut(files, "coins_config_tcp.json", ViewOf(results))
           /\ coins_config_ssl' =
                 [ coin \in DOMAIN coins_config_ssl |->
                     IF HasKey(results, coin) /\ results[coin].shared
                     THEN DictPut(coins_config_ssl[coin], "electrum",
                                  results[coin].list)
                     ELSE coins_config_ssl[coin] ]
    /\ pc' = "done"
    /\ UNCHANGED <<coins_data, repo, electrum_scan_report, parse_idx, coins_config,
                   nodata, coins_config_wss, ddvars, gevars, auxvars>>

Next ==
    \/ ParseCoin
    \/ ParseNodata
    \/ RemoveFailing
    \/ FilterSsl
    \/ FilterWss
    \/ FilterTcp

Spec == Init /\ [][Next]_vars

(***************************************************************************)
(* One coin definition taken through the steps of the loop body of         *)
(* parse_coins_repo (lines 503-522).  rec_pc names the last step run;      *)
(* rec_self.ok is FALSE once a step raised.                                *)
(***************************************************************************)
T_X == << "X" >>

RecTickers ==
    { T_KMD, T_QTUM, T_RBTC, T_SC, T_ETH, T_IRIS, T_UBQ, T_X, T_X \o Sfx_TEST,
      T_X \o << "-" >> \o Pfx_IBC \o T_IRIS }

RecTypes ==
    { "UTXO", "ZHTLC", "BCH", "QTUM", "ETH", "ERC20", "TENDERMINT",
      "TENDERMINTTOKEN", "SIA" }

RecPlatforms == { T_ETH, T_tQTUM, T_IRIS, T_UBQ, T_X }

\* the protocol of a coin definition: with no protocol_data, with
\* protocol_data naming a platform, with consensus_params, with neither
RecProtocols ==
    [ type : RecTypes ]
        \cup [ type : RecTypes,
               protocol_data : [ platform : RecPlatforms, contract_address : { "0x" } ]
                                 \cup { [ consensus_params |-> [ coin_type |-> 133 ] ],
                                        [ decimals |-> 6 ] } ]

RecItems ==
    [ coin : RecTickers, fname : { "Name" }, protocol : RecProtocols ]
        \cup [ coin : RecTickers, fname : { "Name" }, protocol : RecProtocols,
               is_testnet : BOOLEAN ]

RecContract == [ swap_contract_address |-> "0x", rpc_nodes |-> << [ url |-> Url_https_n1 ] >> ]

\* the repositories: the coin with or without an electrums file, the
\* contract files of the platforms present or not
RecTrees(item) ==
    [ electrums : PartialMaps({ StrReplace(item["coin"], Sfx_TEST, << >>) },
                              { << [ url |-> Url_x1 ] >> }),
      ethereum : { << >>, [ n \in { T_ETH, T_QTUM, T_tQTUM, T_UBQ, T_RSK } |-> RecContract ] },
      tendermint : { << >>, [ n \in { T_IRIS, T_ATOM, T_OSMO } |-> RecContract ] },
      light_wallet_d : { << >> } ]

InitRecord ==
    /\ rec_item \in RecItems
    /\ rec_tree \in RecTrees(rec_item)
    /\ rec_report \in Reports(rec_tree)
    /\ rec_self = << >>
    /\ rec_pc = "start"
    /\ DedupIdle
    /\ ElectrumsIdle
    /\ MainIdle
    /\ PortsIdle
    /\ SeedNodesIdle
    /\ GenIdle
    /\ ProbesIdle

\* lines 504-505: CoinConfig(item, electrum_scan_report), get_generics()
RecInit ==
    /\ rec_pc = "start"
    /\ rec_self' = get_generics(CoinConfigInit(rec_item, rec_tree))
    /\ rec_pc' = "get_generics"
    /\ UNCHANGED <<rec_item, rec_tree, rec_report, corevars, portvars, snvars,
                   genvars, probevars>>

\* line 506
RecProtocolInfo ==
    /\ rec_pc = "get_generics"
    /\ rec_self.ok
    /\ rec_self' = get_protocol_info(rec_self)
    /\ rec_pc' = "get_protocol_info"
    /\ UNCHANGED <<rec_item, rec_tree, rec_report, corevars, portvars, snvars,
                   genvars, probevars>>

\* lines 507-508: clean_name(), get_swap_contracts()
RecSwapContracts ==
    /\ rec_pc = "get_protocol_info"
    /\ rec_self.ok
    /\ rec_self' = SwapContractsStep(rec_self, rec_tree)
    /\ rec_pc' = "get_swap_contracts"
    /\ UNCHANGED <<rec_item, rec_tree, rec_report, corevars, portvars, snvars,
                   genvars, probevars>>

\* line 509
RecElectrums ==
    /\ rec_pc = "get_swap_contracts"
    /\ rec_self.ok
    /\ rec_self' = ElectrumsStep(rec_self, rec_tree, rec_report)
    /\ rec_pc' = "get_electrums"
    /\ UNCHANGED <<rec_item, rec_tree, rec_report, corevars, portvars, snvars,
                   genvars, probevars>>

\* lines 511-512: is_smartchain(), is_wallet_only()
RecFlags ==
    /\ rec_pc = "get_electrums"
    /\ rec_self.ok
    /\ rec_self' = FlagsStep(rec_self)
    /\ rec_pc' = "built"
    /\ UNCHANGED <<rec_item, rec_tree, rec_report, corevars, portvars, snvars,
                   genvars, probevars>>

NextRecord ==
    \/ RecInit
    \/ RecProtocolInfo
    \/ RecSwapContracts
    \/ RecElectrums
    \/ RecFlags

SpecRecord == InitRecord /\ [][NextRecord]_vars

----------------------------------------------------------------------------
(* SpecParse: the run of the generator over coins files that define a      *)
(* coin and its -TEST counterpart                                          *)

Item_X ==
    [ coin |-> T_X, fname |-> "Ex", protocol |-> [ type |-> "UTXO" ] ]

Item_X_TEST ==
    [ coin |-> T_X \o Sfx_TEST, fname |-> "Ex Testnet", is_testnet |-> TRUE,
      protocol |-> [ type |-> "UTXO" ] ]

ParseCatalog == { Item_KMD, Item_X, Item_X_TEST }

\* coins files of at most MaxCoins definitions with pairwise distinct coin
\* fields, in any order
ParseCoinFiles ==
    { items \in SeqsUpTo(ParseCatalog, MaxCoins) :
        /\ items # << >>
        /\ \A i, j \in 1..Len(items) :
              items[i]["coin"] = items[j]["coin"] => i = j }

InitParse ==
    /\ coins_data \in ParseCoinFiles
    /\ repo \in Repos(coins_data)
    /\ electrum_scan_report \in Reports(repo)
    /\ pc = "parse"
    /\ parse_idx = 1
    /\ coins_config = << >>
    /\ nodata = << >>
    /\ files = << >>
    /\ coins_config_ssl = << >>
    /\ coins_config_wss = << >>
    /\ coins_config_tcp = << >>
    /\ DedupIdle
    /\ ElectrumsIdle
    /\ AuxIdle

SpecParse == InitParse /\ [][Next]_vars

(***************************************************************************)
(* The generator run a second time.  Every run is a new process: the       *)
(* module-level names are bound again, and what is left of the first run   *)
(* is what it wrote to disk.  The coins repository, the liveness report    *)
(* and current_time are those of the first run.                            *)
(***************************************************************************)
Rerun ==
    /\ pc \in { "done", "crashed" }
    /\ ~second_run
    /\ second_run' = TRUE
    /\ first_run' = [ pc |-> pc,
                      files |-> files,
                      coins_config |-> coins_config,
                      coins_config_ssl |-> coins_config_ssl,
                      coins_config_wss |-> coins_config_wss,
                      coins_config_tcp |-> coins_config_tcp ]
    /\ pc' = "parse"
    /\ parse_idx' = 1
    /\ coins_config' = << >>
    /\ nodata' = << >>
    /\ coins_config_ssl' = << >>
    /\ coins_config_wss' = << >>
    /\ coins_config_tcp' = << >>
    /\ UNCHANGED <<coins_data, repo, electrum_scan_report, files, ddvars, gevars,
                   portvars, snvars, clivars, recvars, probevars>>

NextRerun ==
    \/ Next
    \/ Rerun

SpecRerun == Init /\ [][NextRerun]_vars

(***************************************************************************)
(* The generator from its command line (lines 1035-1132): the spritemap    *)
(* fast path, the liveness scan, the pipeline above, the spritemap.        *)
(***************************************************************************)
config_files ==
    << "coins_config.json", "coins_config_ssl.json", "coins_config_tcp.json",
       "coins_config_wss.json" >>

ConfigFileNames == { config_files[i] : i \in 1..Len(config_files) }

\* the contents of a file whose text json.load rejects (JSONDecodeError)
NotJson == [ t \in { << "{" >> } |-> << >> ]

\* a map a former run wrote
OldMap == [ t \in { T_KMD } |-> [ coin |-> T_KMD ] ]

\* what the directory of the script holds when the generator starts
Disks == PartialMaps(ConfigFileNames, { NotJson, << >>, OldMap })

GenArgvs ==
    { << >>, << "no-scan" >>, << "spritemap" >>, << "no-scan", "spritemap" >>,
      << "spritemap", "no-scan" >> }

\* the coins files of the runs from the command line
CliCoinFiles == { cf \in CoinFiles : cf = << Item_KMD >> }

\* their repositories: at most one server entry
CliRepos(items) == { tree \in Repos(items) : RepoSize(tree) <= 1 }

\* line 1036; sys.argv[0] is the path of the script
generate_spritemap_only ==
    \E i \in 1..Len(sys_argv) : sys_argv[i] = "spritemap"

\* line 1048
all_files_exist == \A f \in ConfigFileNames : HasKey(files, f)

\* lines 1053-1060 and 1070: a load that raises JSONDecodeError
load_raises == \E f \in ConfigFileNames : files[f] = NotJson

\* the same test with "and" between the views
configs_have_data_allViews(cc, ssl, tcp, wss) ==
    cc # << >> /\ ssl # << >> /\ tcp # << >> /\ wss # << >>

\* line 1063: coins_config and (coins_config_ssl or coins_config_tcp or
\* coins_config_wss)
configs_have_data(cc, ssl, tcp, wss) ==
    cc # << >> /\ (ssl # << >> \/ tcp # << >> \/ wss # << >>)

\* lines 1039-1077: the fast path is taken
fast_path ==
    /\ generate_spritemap_only
    /\ all_files_exist
    /\ ~load_raises
    /\ configs_have_data(files["coins_config.json"], files["coins_config_ssl.json"],
                         files["coins_config_tcp.json"],
                         files["coins_config_wss.json"])

InitCli ==
    /\ sys_argv \in GenArgvs
    /\ files \in Disks
    /\ coins_data \in CliCoinFiles
    /\ repo \in CliRepos(coins_data)
    /\ electrum_scan_report = << >>
    /\ pc = "start"
    /\ parse_idx = 1
    /\ coins_config = << >>
    /\ nodata = << >>
    /\ coins_config_ssl = << >>
    /\ coins_config_wss = << >>
    /\ coins_config_tcp = << >>
    /\ scans = 0
    /\ spritemaps = 0
    /\ RerunIdle
    /\ DedupIdle
    /\ ElectrumsIdle
    /\ PortsIdle
    /\ SeedNodesIdle
    /\ RecordIdle
    /\ ProbesIdle

\* lines 1036-1077: with the spritemap argument and usable config files,
\* generate_spritemap() and sys.exit(); else fall through to the full run
CliStart ==
    /\ pc = "start"
    /\ IF fast_path
       THEN /\ spritemaps' = spritemaps + 1
            /\ pc' = "exited"
       ELSE /\ pc' = "scan"
            /\ UNCHANGED spritemaps
    /\ UNCHANGED <<coins_data, repo, electrum_scan_report, parse_idx, coins_config,
                   nodata, files, coins_config_ssl, coins_config_wss,
                   coins_config_tcp, sys_argv, scans, ddvars, gevars, portvars,
                   snvars, rerunvars, recvars, probevars>>

\* lines 1079-1088: the report is what get_electrums_report() returns or,
\* with no-scan as first argument, what electrum_scan_report.json holds
CliScan ==
    /\ pc = "scan"
    /\ LET skip_scan == Len(sys_argv) >= 1 /\ sys_argv[1] = "no-scan"
       IN  scans' = IF skip_scan THEN scans ELSE scans + 1
    /\ electrum_scan_report' \in Reports(repo)
    /\ pc' = "parse"
    /\ UNCHANGED <<coins_data, repo, parse_idx, coins_config, nodata, files,
                   coins_config_ssl, coins_config_wss, coins_config_tcp,
                   sys_argv, spritemaps, ddvars, gevars, portvars, snvars,
                   rerunvars, recvars, probevars>>

\* lines 1124-1132: generate_spritemap() at the end of the full run, then
\* sys.exit() or the end of the script
CliSpritemap ==
    /\ pc = "done"
    /\ spritemaps' = spritemaps + 1
    /\ pc' = IF generate_spritemap_only THEN "exited" ELSE "end"
    /\ UNCHANGED <<coins_data, repo, electrum_scan_report, parse_idx, coins_config,
                   nodata, files, coins_config_ssl, coins_config_wss,
                   coins_config_tcp, sys_argv, scans, ddvars, gevars, portvars,
                   snvars, rerunvars, recvars, probevars>>

NextCli ==
    \/ CliStart
    \/ CliScan
    \/ Next
    \/ CliSpritemap

SpecCli == InitCli /\ [][NextCli]_vars

----------------------------------------------------------------------------
(* SpecDedup: filter_duplicate_domains applied to every bounded list *)

InitDedup ==
    /\ dd_input \in SeqsUpTo(DedupEntries, MaxLen)
    /\ dd_list = dd_input
    /\ dd_first = << >>
    /\ dd_calls = 0
    /\ ElectrumsIdle
    /\ MainIdle
    /\ AuxIdle

\* first application: the list is mutated in place and returned
DedupOnce ==
    /\ dd_calls = 0
    /\ dd_list' = filter_duplicate_domains(dd_list)
    /\ dd_first' = dd_list'
    /\ dd_calls' = 1
    /\ UNCHANGED <<dd_input, gevars, mainvars, auxvars>>

\* second application, to the list the first one returned
DedupAgain ==
    /\ dd_calls = 1
    /\ dd_list' = filter_duplicate_domains(dd_list)
    /\ dd_calls' = 2
    /\ UNCHANGED <<dd_input, dd_first, gevars, mainvars, auxvars>>

NextDedup == DedupOnce \/ DedupAgain

SpecDedup == InitDedup /\ [][NextDedup]_vars

----------------------------------------------------------------------------
(* SpecPorts: wss_port and tcp_port of utils/validate_seed_nodes.py        *)

\* largest netid tried (max_netid is 14428 for the default lp_rpcport)
MaxNetidTried == 14440

\* default of the parameter lp_rpcport
lp_rpcport == 7783

\* max_netid as both functions compute it
max_netid(rpcport) == (65535 - 40 - rpcport) \div 4

\* other_ports without the units digit of the netid
other_ports_tens(n, rpcport) ==
    IF n = 0 THEN rpcport
    ELSE ((n \div 10) * 40) + rpcport

\* other_ports as both functions compute it, for 0 <= n
other_ports(n, rpcport) ==
    IF n = 0 THEN rpcport
    ELSE ((n \div 10) * 40) + rpcport + (n % 10)

\* wss_port with the offset of tcp_port
wss_port_tcpOffset(n, rpcport) ==
    IF ~(0 <= n /\ n <= max_netid(rpcport))
    THEN [ raised |-> "ValueError" ]
    ELSE [ returned |-> other_ports(n, rpcport) + 20 ]

\* wss_port: a record with the value returned, or with the exception raised
wss_port(n, rpcport) ==
    IF ~(0 <= n /\ n <= max_netid(rpcport))
    THEN [ raised |-> "ValueError" ]
    ELSE [ returned |-> other_ports(n, rpcport) + 30 ]

\* tcp_port
tcp_port(n, rpcport) ==
    IF ~(0 <= n /\ n <= max_netid(rpcport))
    THEN [ raised |-> "ValueError" ]
    ELSE [ returned |-> other_ports(n, rpcport) + 20 ]

InitPorts ==
    /\ netid \in (-3)..MaxNetidTried
    /\ port_wss = << >>
    /\ port_tcp = << >>
    /\ port_done = FALSE
    /\ ports_tcp = { }
    /\ ports_wss = { }
    /\ DedupIdle
    /\ ElectrumsIdle
    /\ MainIdle
    /\ SeedNodesIdle
    /\ GenIdle
    /\ RecordIdle
    /\ ProbesIdle

\* both functions called with the default lp_rpcport
CallPorts ==
    /\ ~port_done
    /\ port_wss' = wss_port(netid, lp_rpcport)
    /\ port_tcp' = tcp_port(netid, lp_rpcport)
    /\ port_done' = TRUE
    /\ UNCHANGED <<netid, ports_tcp, ports_wss, corevars, snvars, genvars,
                   recvars, probevars>>

NextPorts == CallPorts

SpecPorts == InitPorts /\ [][NextPorts]_vars

----------------------------------------------------------------------------
(* SpecPortWalk: wss_port and tcp_port called for the netids 0, 1, 2, ...  *)
(* in turn, the ports returned being kept                                  *)

InitPortWalk ==
    /\ netid = 0
    /\ port_wss = << >>
    /\ port_tcp = << >>
    /\ port_done = FALSE
    /\ ports_tcp = { }
    /\ ports_wss = { }
    /\ DedupIdle
    /\ ElectrumsIdle
    /\ MainIdle
    /\ SeedNodesIdle
    /\ GenIdle
    /\ RecordIdle
    /\ ProbesIdle

\* the ports returned for netid are kept and the next netid is taken
NextNetid ==
    /\ port_done
    /\ netid < MaxNetidTried
    /\ ports_tcp' = ports_tcp \cup (IF "returned" \in DOMAIN port_tcp
                                    THEN { port_tcp.returned } ELSE { })
    /\ ports_wss' = ports_wss \cup (IF "returned" \in DOMAIN port_wss
                                    THEN { port_wss.returned } ELSE { })
    /\ netid' = netid + 1
    /\ port_wss' = << >>
    /\ port_tcp' = << >>
    /\ port_done' = FALSE
    /\ UNCHANGED <<corevars, snvars, genvars, recvars, probevars>>

NextPortWalk == CallPorts \/ NextNetid

SpecPortWalk == InitPortWalk /\ [][NextPortWalk]_vars

----------------------------------------------------------------------------
(* SpecSeedNodes: a run of utils/validate_seed_nodes.py                    *)

\* most command-line arguments, most nodes in the registry
MaxArgs == 3
MaxSeedNodes == 2

\* the netid of a node that names none, and the first netid above max_netid
DefaultNetid == 8762
BadNetid == max_netid(lp_rpcport) + 1

\* a Python value that is None (also what json.load gives for null)
PyNone == [ is_none |-> TRUE ]

\* the files a path can name: absent, not JSON, or JSON with a value
SchemaFiles ==
    { [ kind |-> "missing" ], [ kind |-> "not_json" ],
      [ kind |-> "json", value |-> PyNone ] }
        \cup { [ kind |-> "json", value |-> [ is_none |-> FALSE, well_formed |-> w ] ] :
                 w \in BOOLEAN }

SeedNodeRecords ==
    [ name : { "n1", "n2" }, host : { "h1", "h2" }, wss : BOOLEAN,
      netid : { DefaultNetid, BadNetid } ]

\* a registry that does not match the schema is kept without its contents
RegistryFiles ==
    { [ kind |-> "missing" ], [ kind |-> "not_json" ],
      [ kind |-> "json", value |-> PyNone ],
      [ kind |-> "json",
        value |-> [ is_none |-> FALSE, matches |-> FALSE, nodes |-> << >> ] ] }
        \cup { [ kind |-> "json",
                 value |-> [ is_none |-> FALSE, matches |-> TRUE, nodes |-> l ] ] :
                 l \in SeqsUpTo(SeedNodeRecords, MaxSeedNodes) }

\* what a probe of a host finds: TCP connect succeeds or not; the WSS test
\* passes, meets a self-signed certificate, or cannot connect
Networks ==
    [ { "h1", "h2" } -> [ tcp : BOOLEAN, wss : { "ok", "self_signed", "refused" } ] ]

\* load_json_file: None when the file is absent or is not JSON
load_json_file(file) ==
    IF file.kind = "json" THEN file.value ELSE PyNone

\* check_duplicates without the test of the hosts
check_duplicates_namesOnly(nodes) ==
    IF \E i, j \in 1..Len(nodes) : i < j /\ nodes[i].name = nodes[j].name
    THEN << "Duplicate seed node names found" >> ELSE << >>

\* check_duplicates: the list of error messages
check_duplicates(nodes) ==
    (IF \E i, j \in 1..Len(nodes) : i < j /\ nodes[i].name = nodes[j].name
     THEN << "Duplicate seed node names found" >> ELSE << >>)
    \o (IF \E i, j \in 1..Len(nodes) : i < j /\ nodes[i].host = nodes[j].host
        THEN << "Duplicate seed node hosts found" >> ELSE << >>)

\* test_wss_connection: the success flag of the tuple returned
test_wss_connection(net, host) == net[host].wss = "ok"

\* test_tcp_connection: the success flag of the tuple returned
test_tcp_connection(net, host) == net[host].tcp

\* The loop of check_wss_connectivity and check_tcp_connectivity over the
\* nodes from position i.  success is the local variable of that name:
\* "unbound" before its first assignment, which the ValueError branch does
\* not make, so that the test "if success" after it raises
\* UnboundLocalError on a first node with an invalid netid.  port and test
\* are "wss" or "tcp".  Gives [ raised, results ].
RECURSIVE ConnectivityLoop(_, _, _, _, _, _)
ConnectivityLoop(nodes, net, kind, i, success, results) ==
    IF i > Len(nodes) THEN [ raised |-> FALSE, results |-> results ]
    ELSE LET port == IF kind = "wss" THEN wss_port(nodes[i].netid, lp_rpcport)
                     ELSE tcp_port(nodes[i].netid, lp_rpcport)
             invalid == "raised" \in DOMAIN port
             ok == IF kind = "wss" THEN test_wss_connection(net, nodes[i].host)
                   ELSE test_tcp_connection(net, nodes[i].host)
         IN  IF invalid
             THEN IF success = "unbound"
                  THEN [ raised |-> TRUE, results |-> Append(results, FALSE) ]
                  ELSE ConnectivityLoop(nodes, net, kind, i + 1, success,
                                        Append(results, FALSE))
             ELSE ConnectivityLoop(nodes, net, kind, i + 1,
                                   IF ok THEN "true" ELSE "false",
                                   Append(results, ok))

\* the summary after the loop: True when every result is a success
ConnectivitySummary(nodes, results) ==
    LET successful_connections ==
            Cardinality({ i \in 1..Len(results) : results[i] })
    IN  IF successful_connections = 0 THEN FALSE
        ELSE IF successful_connections < Len(nodes) THEN FALSE
        ELSE TRUE

\* check_wss_connectivity without the test for full reachability
check_wss_connectivity_anyNode(nodes, net) ==
    LET wss_nodes == SelectSeq(nodes, LAMBDA node : node.wss)
        loop == ConnectivityLoop(wss_nodes, net, "wss", 1, "unbound", << >>)
    IN  IF wss_nodes = << >> THEN [ raised |-> FALSE, returned |-> TRUE ]
        ELSE IF loop.raised THEN [ raised |-> TRUE, returned |-> FALSE ]
        ELSE [ raised |-> FALSE,
               returned |-> \E i \in 1..Len(loop.results) : loop.results[i] ]

\* check_wss_connectivity: [ raised, returned ]
check_wss_connectivity(nodes, net) ==
    LET wss_nodes == SelectSeq(nodes, LAMBDA node : node.wss)
        loop == ConnectivityLoop(wss_nodes, net, "wss", 1, "unbound", << >>)
    IN  IF wss_nodes = << >> THEN [ raised |-> FALSE, returned |-> TRUE ]
        ELSE IF loop.raised THEN [ raised |-> TRUE, returned |-> FALSE ]
        ELSE [ raised |-> FALSE,
               returned |-> ConnectivitySummary(wss_nodes, loop.results) ]

\* check_tcp_connectivity: [ raised, returned ]
check_tcp_connectivity(nodes, net) ==
    LET loop == ConnectivityLoop(nodes, net, "tcp", 1, "unbound", << >>)
    IN  IF nodes = << >> THEN [ raised |-> FALSE, returned |-> TRUE ]
        ELSE IF loop.raised THEN [ raised |-> TRUE, returned |-> FALSE ]
        ELSE [ raised |-> FALSE,
               returned |-> ConnectivitySummary(nodes, loop.results) ]

\* The argument loop of main from position i: "--help" and "-h" exit with
\* 0, another option and a third positional argument exit with 1.  Gives
\* << >> when the loop ends without an exit, else << code >>.
RECURSIVE ParseArgs(_, _, _)
ParseArgs(args, i, positional) ==
    IF i > Len(args) THEN << >>
    ELSE IF args[i] \in { "--help", "-h" } THEN << 0 >>
    ELSE IF args[i] = "--verbose" THEN << 1 >>
    ELSE IF positional < 2 THEN ParseArgs(args, i + 1, positional + 1)
    ELSE << 1 >>

InitSeedNodes ==
    /\ sn_pc = "args"
    /\ argv \in SeqsUpTo({ "--help", "-h", "--verbose", "nodes.json" }, MaxArgs)
    /\ schema = << >>
    /\ seed_nodes = << >>
    /\ network \in Networks
    /\ wss_connectivity_result = << >>
    /\ tcp_connectivity_result = << >>
    /\ is_valid = << >>
    /\ exit_code = << >>
    /\ DedupIdle
    /\ ElectrumsIdle
    /\ MainIdle
    /\ PortsIdle
    /\ GenIdle
    /\ RecordIdle
    /\ ProbesIdle

\* main, lines 443-471
SnParseArgs ==
    /\ sn_pc = "args"
    /\ exit_code' = ParseArgs(argv, 1, 0)
    /\ sn_pc' = IF exit_code' = << >> THEN "load" ELSE "exited"
    /\ UNCHANGED <<argv, schema, seed_nodes, network, wss_connectivity_result,
                   tcp_connectivity_result, is_valid, corevars, portvars, genvars, recvars, probevars>>

\* validate_seed_nodes, lines 369-377: both files are loaded, the registry
\* only when the schema is not None
SnLoad ==
    /\ sn_pc = "load"
    /\ \E sfile \in SchemaFiles, rfile \in RegistryFiles :
          /\ schema' = load_json_file(sfile)
          /\ IF schema'.is_none
             THEN /\ seed_nodes' = seed_nodes
                  /\ is_valid' = << FALSE >>
                  /\ sn_pc' = "exit"
             ELSE /\ seed_nodes' = load_json_file(rfile)
                  /\ IF seed_nodes'.is_none
                     THEN is_valid' = << FALSE >> /\ sn_pc' = "exit"
                     ELSE is_valid' = is_valid /\ sn_pc' = "validate"
    /\ UNCHANGED <<argv, network, wss_connectivity_result, tcp_connectivity_result,
                   exit_code, corevars, portvars, genvars, recvars, probevars>>

\* validate_seed_nodes, lines 379-394: check_schema, validate and
\* check_duplicates; SchemaError and ValidationError are caught and give
\* False
SnValidate ==
    /\ sn_pc = "validate"
    /\ IF \/ ~schema.well_formed
          \/ ~seed_nodes.matches
          \/ check_duplicates(seed_nodes.nodes) # << >>
       THEN is_valid' = << FALSE >> /\ sn_pc' = "exit"
       ELSE is_valid' = is_valid /\ sn_pc' = "wss"
    /\ UNCHANGED <<argv, schema, seed_nodes, network, wss_connectivity_result,
                   tcp_connectivity_result, exit_code, corevars, portvars, genvars, recvars, probevars>>

\* validate_seed_nodes, line 415; an exception is caught at line 432
SnCheckWss ==
    /\ sn_pc = "wss"
    /\ LET r == check_wss_connectivity(seed_nodes.nodes, network)
       IN  IF r.raised
           THEN /\ is_valid' = << FALSE >>
                /\ sn_pc' = "exit"
                /\ UNCHANGED wss_connectivity_result
           ELSE /\ wss_connectivity_result' = << r.returned >>
                /\ sn_pc' = "tcp"
                /\ UNCHANGED is_valid
    /\ UNCHANGED <<argv, schema, seed_nodes, network, tcp_connectivity_result,
                   exit_code, corevars, portvars, genvars, recvars, probevars>>

\* validate_seed_nodes, lines 418-420
SnCheckTcp ==
    /\ sn_pc = "tcp"
    /\ LET r == check_tcp_connectivity(seed_nodes.nodes, network)
       IN  IF r.raised
           THEN /\ is_valid' = << FALSE >>
                /\ UNCHANGED tcp_connectivity_result
           ELSE /\ tcp_connectivity_result' = << r.returned >>
                /\ is_valid' = << wss_connectivity_result[1] /\ r.returned >>
    /\ sn_pc' = "exit"
    /\ UNCHANGED <<argv, schema, seed_nodes, network, wss_connectivity_result,
                   exit_code, corevars, portvars, genvars, recvars, probevars>>

\* main, lines 476-482
SnExit ==
    /\ sn_pc = "exit"
    /\ exit_code' = IF is_valid[1] THEN << 0 >> ELSE << 1 >>
    /\ sn_pc' = "exited"
    /\ UNCHANGED <<argv, schema, seed_nodes, network, wss_connectivity_result,
                   tcp_connectivity_result, is_valid, corevars, portvars, genvars, recvars, probevars>>

NextSeedNodes ==
    \/ SnParseArgs
    \/ SnLoad
    \/ SnValidate
    \/ SnCheckWss
    \/ SnCheckTcp
    \/ SnExit

SpecSeedNodes == InitSeedNodes /\ [][NextSeedNodes]_vars

----------------------------------------------------------------------------
(* validate_seed_nodes.py with the loops of check_wss_connectivity and     *)
(* check_tcp_connectivity taken one await at a time: a probe is started,    *)
(* the coroutine is suspended at the await, and it is resumed with the      *)
(* probe's outcome (a probe that times out has the outcome of a failure).   *)

\* the loops without the filter on the wss flag
ProbeNodes_unfiltered(kind) == seed_nodes.nodes

\* the list a loop iterates: wss_nodes (lines 260-263) or seed_nodes
ProbeNodes(kind) ==
    IF kind = "wss" THEN SelectSeq(seed_nodes.nodes, LAMBDA node : node.wss)
    ELSE seed_nodes.nodes

\* the port computed at lines 269 and 317: a number or what was raised
ProbePort(kind, node) ==
    IF kind = "wss" THEN wss_port(node.netid, lp_rpcport)
    ELSE tcp_port(node.netid, lp_rpcport)

\* the loop is at a node and no probe is awaited
AtNode(kind) ==
    /\ sn_pc = kind
    /\ pr_in_flight = { }
    /\ pr_idx < Len(ProbeNodes(kind))

\* lines 265-270 and 313-318: the port is computed and the probe awaited
ProbeStart(kind) ==
    /\ AtNode(kind)
    /\ LET node == ProbeNodes(kind)[pr_idx + 1]
       IN  /\ "raised" \notin DOMAIN ProbePort(kind, node)
           /\ pr_in_flight' = pr_in_flight \cup { << kind, node.name >> }
           /\ pr_log' = Append(pr_log, << kind, node.name >>)
    /\ UNCHANGED <<pr_idx, pr_success, pr_results, snvars, corevars, portvars,
                   genvars, recvars>>

\* lines 270-283 and 318-330: the awaited probe completes, the outcome is
\* bound to success and appended
ProbeFinish(kind) ==
    /\ sn_pc = kind
    /\ pr_in_flight # { }
    /\ LET node == ProbeNodes(kind)[pr_idx + 1]
           ok == IF kind = "wss" THEN test_wss_connection(network, node.host)
                 ELSE test_tcp_connection(network, node.host)
       IN  /\ << kind, node.name >> \in pr_in_flight
           /\ pr_in_flight' = pr_in_flight \ { << kind, node.name >> }
           /\ pr_success' = IF ok THEN "true" ELSE "false"
           /\ pr_results' = Append(pr_results, ok)
    /\ pr_idx' = pr_idx + 1
    /\ UNCHANGED <<pr_log, snvars, corevars, portvars, genvars, recvars>>

\* lines 271-283 and 319-330: wss_port or tcp_port raised ValueError; no
\* probe is made, success keeps its value, and the test of success raises
\* UnboundLocalError when it has none (caught at line 432)
ProbeInvalid(kind) ==
    /\ AtNode(kind)
    /\ "raised" \in DOMAIN ProbePort(kind, ProbeNodes(kind)[pr_idx + 1])
    /\ IF pr_success = "unbound"
       THEN /\ is_valid' = << FALSE >>
            /\ sn_pc' = "exit"
            /\ pr_idx' = 0
            /\ pr_results' = << >>
       ELSE /\ pr_idx' = pr_idx + 1
            /\ pr_results' = Append(pr_results, FALSE)
            /\ UNCHANGED <<is_valid, sn_pc>>
    /\ UNCHANGED <<pr_in_flight, pr_log, pr_success, argv, schema, seed_nodes,
                   network, wss_connectivity_result, tcp_connectivity_result,
                   exit_code, corevars, portvars, genvars, recvars>>

\* check_wss_connectivity returns (lines 263 and 285-296), line 415
ProbeWssReturn ==
    /\ sn_pc = "wss"
    /\ pr_in_flight = { }
    /\ pr_idx = Len(ProbeNodes("wss"))
    /\ wss_connectivity_result' =
           << IF ProbeNodes("wss") = << >> THEN TRUE
              ELSE ConnectivitySummary(ProbeNodes("wss"), pr_results) >>
    /\ sn_pc' = "tcp"
    /\ pr_idx' = 0
    /\ pr_success' = "unbound"
    /\ pr_results' = << >>
    /\ UNCHANGED <<pr_in_flight, pr_log, argv, schema, seed_nodes, network,
                   tcp_connectivity_result, is_valid, exit_code, corevars,
                   portvars, genvars, recvars>>

\* check_tcp_connectivity returns (lines 311 and 332-343), lines 418-420
ProbeTcpReturn ==
    /\ sn_pc = "tcp"
    /\ pr_in_flight = { }
    /\ pr_idx = Len(ProbeNodes("tcp"))
    /\ tcp_connectivity_result' =
           << IF ProbeNodes("tcp") = << >> THEN TRUE
              ELSE ConnectivitySummary(ProbeNodes("tcp"), pr_results) >>
    /\ is_valid' = << wss_connectivity_result[1] /\ tcp_connectivity_result'[1] >>
    /\ sn_pc' = "exit"
    /\ pr_idx' = 0
    /\ pr_success' = "unbound"
    /\ pr_results' = << >>
    /\ UNCHANGED <<pr_in_flight, pr_log, argv, schema, seed_nodes, network,
                   wss_connectivity_result, exit_code, corevars, portvars,
                   genvars, recvars>>

NextProbes ==
    \/ SnParseArgs
    \/ SnLoad
    \/ SnValidate
    \/ ProbeStart("wss")
    \/ ProbeFinish("wss")
    \/ ProbeInvalid("wss")
    \/ ProbeWssReturn
    \/ ProbeStart("tcp")
    \/ ProbeFinish("tcp")
    \/ ProbeInvalid("tcp")
    \/ ProbeTcpReturn
    \/ SnExit

SpecProbes == InitSeedNodes /\ [][NextProbes]_vars

----------------------------------------------------------------------------
(* Claims about filter_duplicate_domains *)

\* a domain of the list offers both an SSL and a TCP entry
BothSslTcp(l) ==
    \E a, b \in 1..Len(l) :
        /\ l[a]["protocol"] = "SSL"
        /\ l[b]["protocol"] = "TCP"
        /\ SplitColonFirst(l[a]["url"]) = SplitColonFirst(l[b]["url"])

\* C1: after filter_duplicate_domains(L) no domain of the returned list has
\* both an SSL-tagged and a TCP-tagged entry, for every list L.
C1_NoSslTcpDomain == dd_calls >= 1 => ~BothSslTcp(dd_first)

\* C2: filter_duplicate_domains is idempotent: the second application
\* returns what the first one returned.
C2_Idempotent == dd_calls = 2 => dd_list = dd_first

InList(l, e) == \E k \in 1..Len(l) : l[k] = e

Ssl_x2     == [ url |-> Url_x2, protocol |-> "SSL" ]
Tcp_x1     == [ url |-> Url_x1, protocol |-> "TCP" ]
Ssl_ssl_x2 == [ url |-> Url_ssl_x2, protocol |-> "SSL" ]
Tcp_tcp_x1 == [ url |-> Url_tcp_x1, protocol |-> "TCP" ]

\* C10 as stated: a list holding the SSL entry ssl://x.com:50002 and the TCP
\* entry tcp://x.com:50001 (scheme prefix included) loses the TCP entry and
\* keeps the SSL entry.
C10_SchemeUrlsDeduped ==
    (dd_calls >= 1 /\ InList(dd_input, Ssl_ssl_x2) /\ InList(dd_input, Tcp_tcp_x1))
        => (~InList(dd_first, Tcp_tcp_x1) /\ InList(dd_first, Ssl_ssl_x2))

\* C10 amended: the list of exactly the SSL entry x.com:50002 and the TCP
\* entry x.com:50001 (host:port, no scheme prefix), in either order, is
\* reduced to the SSL entry alone.
C10_HostPortDeduped ==
    (dd_calls >= 1 /\ dd_input \in { <<Ssl_x2, Tcp_x1>>, <<Tcp_x1, Ssl_x2>> })
        => dd_first = <<Ssl_x2>>

C10_Witness == dd_calls = 1 /\ dd_input = <<Ssl_x2, Tcp_x1>> /\ dd_first = <<Ssl_x2>>

----------------------------------------------------------------------------
(* Claims about get_electrums *)

\* the fresh observations that match a static server: <<i, x, j, variant>>
\* where static server i has, as its url or as its ws_url, the j-th url
\* observed under tag x
GeMatches ==
    { m \in (1..Len(ge_electrums)) \X { "tcp", "ssl", "wss" }
            \X (1..GeMaxObs + 1) \X { "url", "ws_url" } :
        /\ m[3] <= Len(ge_report[m[2]])
        /\ IsFresh(ge_report[m[2]][m[3]].v)
        /\ HasKey(ge_electrums[m[1]], m[4])
        /\ ge_electrums[m[1]][m[4]] = ge_report[m[2]][m[3]].k }

\* the entry the claim describes for a match
GeExpected(m) ==
    [ url |-> ge_report[m[2]][m[3]].k,
      protocol |-> IF m[4] = "url" THEN Upper(m[2]) ELSE "WSS" ]

GeScenarioIn ==
    /\ ge_electrums = << [ url |-> Url_a1 ], [ ws_url |-> Url_b ] >>
    /\ ge_report = ReportOf(<< [ x |-> "tcp", k |-> Url_a1, t |-> FreshStamp ],
                               [ x |-> "wss", k |-> Url_b, t |-> FreshStamp ] >>)

GeScenarioOut ==
    << [ url |-> Url_a1, protocol |-> "TCP" ],
       [ url |-> Url_b, protocol |-> "WSS" ] >>

\* C9: get_electrums emits one entry per static server and fresh observed
\* url k under tag x exactly when k is the server's url (entry: url k,
\* protocol x upper-cased) or its ws_url (entry: url k, protocol WSS); no
\* entry keeps a ws_url; the BTC scenario reconciles to exactly its two
\* entries.
C9_Reconciled ==
    ge_done =>
        /\ Len(ge_out) = Cardinality(GeMatches)
        /\ { ge_out[n] : n \in 1..Len(ge_out) } = { GeExpected(m) : m \in GeMatches }
        /\ \A n \in 1..Len(ge_out) : ~HasKey(ge_out[n], "ws_url")
        /\ (GeScenarioIn => ge_out = GeScenarioOut)

C9_Witness == ge_done /\ GeScenarioIn /\ ge_out = GeScenarioOut

----------------------------------------------------------------------------
(* Claims about the run of the generator *)

Written(name) == name \in DOMAIN files

ListSet(l) == { l[n] : n \in 1..Len(l) }

\* C3: building the TCP view leaves the TLS view as filter_ssl returned it
\* (the contents dumped to coins_config_ssl.json).
C3_TlsViewUntouched ==
    pc = "done" => coins_config_ssl = files["coins_config_ssl.json"]

\* every entry of a TLS view is a TLS entry
TlsOnly(view) ==
    \A coin \in DOMAIN view :
        /\ HasKey(view[coin], "electrum") =>
               \A i \in ListSet(view[coin]["electrum"]) :
                   HasKey(i, "protocol") /\ i["protocol"] = "SSL"
        /\ HasKey(view[coin], "nodes") =>
               \A i \in ListSet(view[coin]["nodes"]) : StartsWith(i["url"], Https)
        /\ HasKey(view[coin], "light_wallet_d_servers") =>
               \A i \in ListSet(view[coin]["light_wallet_d_servers"]) :
                   StartsWith(i, Https)

NoEmptyElectrum(view) ==
    \A coin \in DOMAIN view :
        HasKey(view[coin], "electrum") => Len(view[coin]["electrum"]) > 0

\* C5: the TLS view filter_ssl produces holds no coin with an empty
\* Electrum list.
C5_TlsViewNoEmptyList ==
    Written("coins_config_ssl.json") => NoEmptyElectrum(files["coins_config_ssl.json"])

\* C6: the plaintext/TCP view filter_tcp produces holds no coin with an
\* empty Electrum list.
C6_TcpViewNoEmptyList ==
    Written("coins_config_tcp.json") => NoEmptyElectrum(files["coins_config_tcp.json"])

\* C7: in the secure-websocket view a coin with an Electrum list has a
\* non-empty list of WSS entries only, a coin without one but with a node
\* list has a non-empty list of nodes that each carry a ws_url, and a
\* canonical coin with no qualifying entry is absent.
C7_WssView ==
    Written("coins_config_wss.json") =>
        LET view == files["coins_config_wss.json"]
        IN  /\ coins_config_wss = view
            /\ \A coin \in DOMAIN view :
                   IF HasKey(view[coin], "electrum")
                   THEN /\ Len(view[coin]["electrum"]) > 0
                        /\ \A i \in ListSet(view[coin]["electrum"]) :
                               HasKey(i, "protocol") /\ i["protocol"] = "WSS"
                   ELSE HasKey(view[coin], "nodes") =>
                            /\ Len(view[coin]["nodes"]) > 0
                            /\ \A i \in ListSet(view[coin]["nodes"]) :
                                   HasKey(i, "ws_url")
            /\ \A coin \in DOMAIN coins_config :
                   LET rec == coins_config[coin]
                       qualifying ==
                           IF HasKey(rec, "electrum")
                           THEN { i \in ListSet(rec["electrum"]) :
                                    HasKey(i, "protocol") /\ i["protocol"] = "WSS" }
                           ELSE IF HasKey(rec, "nodes")
                           THEN { i \in ListSet(rec["nodes"]) : HasKey(i, "ws_url") }
                           ELSE { rec }
                   IN  (qualifying = {}) => coin \notin DOMAIN view

\* one coin kept with its WSS entries out of a mixed list, another dropped
C7_Witness ==
    /\ pc = "filter_tcp"
    /\ \E coin \in DOMAIN coins_config_wss :
           /\ HasKey(coins_config_wss[coin], "electrum")
           /\ Len(coins_config_wss[coin]["electrum"])
                  < Len(coins_config[coin]["electrum"])
    /\ \E coin \in DOMAIN coins_config : coin \notin DOMAIN coins_config_wss

\* the electrums file get_electrums reads for a record of the map
ElectrumFileOf(rec) ==
    IF rec["type"] = "QRC-20"
    THEN IF rec["is_testnet"] THEN T_tQTUM ELSE T_QTUM
    ELSE StrReplace(rec["coin"], Sfx_segwit, << >>)

\* a fresh observation of the coin's report matches the url or the ws_url
\* of one of its static servers
HasFreshMatch(name) ==
    /\ HasKey(electrum_scan_report, name)
    /\ \E x \in { "tcp", "ssl", "wss" } :
           \E j \in 1..Len(electrum_scan_report[name][x]) :
               /\ IsFresh(electrum_scan_report[name][x][j].v)
               /\ \E i \in 1..Len(repo.electrums[name]) :
                      \E f \in { "url", "ws_url" } :
                          /\ HasKey(repo.electrums[name][i], f)
                          /\ repo.electrums[name][i][f]
                                 = electrum_scan_report[name][x][j].k

\* the coins of the unfiltered map that have static servers (an electrums
\* file), none of them with a fresh match
Unmatched ==
    { coin \in DOMAIN files["coins_config_unfiltered.json"] :
        LET name == ElectrumFileOf(files["coins_config_unfiltered.json"][coin])
        IN  HasKey(repo.electrums, name) /\ ~HasFreshMatch(name) }

\* C8: a coin of the unfiltered map whose static servers have no fresh
\* liveness match (not in the report, or in it without a fresh matching
\* url) is in the exclusion list parse_coins_repo returns and is not in the
\* canonical map dumped after the exclusion step.
C8_UnmatchedExcluded ==
    Written("coins_config_unfiltered.json") =>
        \A coin \in Unmatched :
            /\ coin \in ListSet(nodata)
            /\ Written("coins_config.json") =>
                   coin \notin DOMAIN files["coins_config.json"]

\* the unmatched coins the report lists, or whose record has no node list
UnmatchedWithoutNodes ==
    { coin \in Unmatched :
        LET rec == files["coins_config_unfiltered.json"][coin]
        IN  \/ HasKey(electrum_scan_report, ElectrumFileOf(rec))
            \/ ~HasKey(rec, "nodes") /\ ~HasKey(rec, "rpc_urls") }

\* C8 (amended): a coin of the unfiltered map whose static servers have no
\* fresh liveness match, and that is in the report or has neither a nodes
\* nor an rpc_urls list, is in the exclusion list and is not in the
\* canonical map dumped after the exclusion step.
C8_UnmatchedWithoutNodesExcluded ==
    Written("coins_config_unfiltered.json") =>
        \A coin \in UnmatchedWithoutNodes :
            /\ coin \in ListSet(nodata)
            /\ Written("coins_config.json") =>
                   coin \notin DOMAIN files["coins_config.json"]

\* the canonical map is written without a coin that is in the report with
\* no fresh matching url, and keeps another coin
C8_Witness ==
    /\ Written("coins_config.json")
    /\ \E coin \in UnmatchedWithoutNodes :
           /\ HasKey(electrum_scan_report,
                     ElectrumFileOf(files["coins_config_unfiltered.json"][coin]))
           /\ coin \notin DOMAIN files["coins_config.json"]
    /\ DOMAIN files["coins_config.json"] # {}

----------------------------------------------------------------------------
(* Claims about validate_seed_nodes.py *)

\* C11: with the default RPC port 7783, wss_port(0) = 7813 and
\* tcp_port(0) = 7803; for every valid netid n >= 1 (n <= 14428) the WSS
\* port is (n // 10) * 40 + 7783 + (n % 10) + 30 and the TCP port is the
\* same base + 20.
C11_Ports ==
    port_done =>
        /\ netid = 0 =>
               port_wss = [ returned |-> 7813 ] /\ port_tcp = [ returned |-> 7803 ]
        /\ (1 <= netid /\ netid <= 14428) =>
               /\ port_wss = [ returned |->
                      (netid \div 10) * 40 + 7783 + (netid % 10) + 30 ]
               /\ port_tcp = [ returned |->
                      (netid \div 10) * 40 + 7783 + (netid % 10) + 20 ]

\* the largest valid netid gives the ports 65501 and 65491
C11_Witness ==
    /\ port_done
    /\ netid = 14428
    /\ port_wss = [ returned |-> 65501 ]
    /\ port_tcp = [ returned |-> 65491 ]

\* a file was loaded and is not None
Loaded(v) == "is_none" \in DOMAIN v /\ ~v.is_none

ValidNetid(n) == 0 <= n /\ n <= 14428

\* both files load, the schema and the registry validate, no name or host
\* is duplicated, every node passes the TCP probe and every node with
\* wss = true passes the WSS test
AllGood ==
    /\ Loaded(schema)
    /\ Loaded(seed_nodes)
    /\ schema.well_formed
    /\ seed_nodes.matches
    /\ \A i, j \in 1..Len(seed_nodes.nodes) :
           i # j => /\ seed_nodes.nodes[i].name # seed_nodes.nodes[j].name
                    /\ seed_nodes.nodes[i].host # seed_nodes.nodes[j].host
    /\ \A i \in 1..Len(seed_nodes.nodes) :
           LET node == seed_nodes.nodes[i]
           IN  /\ ValidNetid(node.netid)
               /\ network[node.host].tcp
               /\ node.wss => network[node.host].wss = "ok"

\* C12: the validator exits with code 0 if and only if both files load, the
\* schema and the registry validate, no duplicate name or host exists and
\* every probe succeeds; in every other case it exits with code 1.
C12_ExitZeroIffAllGood ==
    sn_pc = "exited" =>
        /\ exit_code \in { << 0 >>, << 1 >> }
        /\ exit_code = << 0 >> <=> AllGood

\* the arguments are at most two paths: the argument loop ends without exit
PathsOnly ==
    /\ Len(argv) <= 2
    /\ \A i \in 1..Len(argv) : argv[i] = "nodes.json"

\* C12 (amended): when the arguments are at most two paths, the validator
\* exits with 0 if and only if all checks pass, and with 1 otherwise; with
\* any other arguments it exits without validating, with 0 only when it
\* read --help or -h.
C12_ExitCode ==
    sn_pc = "exited" =>
        /\ exit_code \in { << 0 >>, << 1 >> }
        /\ PathsOnly => (exit_code = << 0 >> <=> AllGood)
        /\ ~PathsOnly =>
               /\ is_valid = << >>
               /\ ~Loaded(schema)
               /\ exit_code = << 0 >> =>
                      \E i \in 1..Len(argv) : argv[i] \in { "--help", "-h" }

\* a run over two distinct nodes, one of them with wss = true, all reachable
C12_Witness ==
    /\ sn_pc = "exited"
    /\ exit_code = << 0 >>
    /\ Loaded(seed_nodes)
    /\ Len(seed_nodes.nodes) = 2
    /\ \E i \in 1..2 : seed_nodes.nodes[i].wss

----------------------------------------------------------------------------
(* More claims about the run of the generator *)

\* no node of a view carries komodo_proxy
NoProxyNode(view) ==
    \A coin \in DOMAIN view :
        HasKey(view[coin], "nodes") =>
            \A i \in ListSet(view[coin]["nodes"]) : ~HasKey(i, "komodo_proxy")

ServerFields(rec) ==
    { f \in { "electrum", "nodes", "light_wallet_d_servers" } :
        IF f = "nodes" THEN HasKey(rec, "nodes") \/ HasKey(rec, "rpc_urls")
        ELSE HasKey(rec, f) }

\* C14: in every record the pipeline builds the fields electrum,
\* nodes/rpc_urls and light_wallet_d_servers are mutually exclusive: no
\* record carries two of them.
C14_OneServerField ==
    \A coin \in DOMAIN coins_config : Cardinality(ServerFields(coins_config[coin])) <= 1

\* C14 (amended): no record carries both nodes and rpc_urls, none carries
\* electrum together with nodes or rpc_urls, and light_wallet_d_servers is
\* carried by exactly the ZHTLC records, without nodes or rpc_urls but
\* together with electrum when the coin is in the liveness report.
C14_ServerFields ==
    \A coin \in DOMAIN coins_config :
        LET rec == coins_config[coin]
        IN  /\ ~(HasKey(rec, "nodes") /\ HasKey(rec, "rpc_urls"))
            /\ ~(HasKey(rec, "electrum")
                   /\ (HasKey(rec, "nodes") \/ HasKey(rec, "rpc_urls")))
            /\ HasKey(rec, "light_wallet_d_servers")
                   <=> rec["protocol"]["type"] = "ZHTLC"
            /\ HasKey(rec, "light_wallet_d_servers") =>
                   /\ ~HasKey(rec, "nodes") /\ ~HasKey(rec, "rpc_urls")
                   /\ HasKey(rec, "electrum")
                          <=> HasKey(electrum_scan_report, ElectrumFileOf(rec))

\* a ZHTLC record with a lightwallet server and a reconciled Electrum
\* server, next to a record with nodes only
C14_Witness ==
    /\ pc = "exclude"
    /\ \E coin \in DOMAIN coins_config :
           /\ HasKey(coins_config[coin], "light_wallet_d_servers")
           /\ Len(coins_config[coin]["light_wallet_d_servers"]) > 0
           /\ HasKey(coins_config[coin], "electrum")
           /\ Len(coins_config[coin]["electrum"]) > 0

AllFourNonEmpty ==
    \A f \in ConfigFileNames :
        HasKey(files, f) /\ files[f] # NotJson /\ files[f] # << >>

\* the step from the command line with the spritemap argument: condition
\* usable decides between generating the spritemap at once, with no scan
\* and no file rewritten, and the full run
SpritemapStep(usable) ==
    (pc = "start" /\ generate_spritemap_only) =>
        IF usable
        THEN /\ pc' = "exited"
             /\ spritemaps' = 1
             /\ scans' = 0
             /\ files' = files
        ELSE /\ pc' = "scan"
             /\ spritemaps' = 0

Running == { "scan", "parse", "exclude", "filter_ssl", "filter_wss", "filter_tcp",
             "done" }

\* C16 as stated: with the spritemap argument the spritemap is generated at
\* once, with no scan and no config file rewritten, when all four config
\* maps exist, parse and are non-empty, and the full run is made when any of
\* them is missing, unparsable or empty; a run that ends has generated the
\* spritemap exactly once, after the full run if there was one
C16_FastPathIffAllFourNonEmpty ==
    /\ [][SpritemapStep(AllFourNonEmpty)]_vars
    /\ []((pc \in Running) => spritemaps = 0)
    /\ []((pc \in { "exited", "end" }) => spritemaps = 1)

\* C16 amended: the fast path is taken when all four config files exist and
\* parse, the canonical map is non-empty and at least one of the three
\* views is non-empty; otherwise the full run is made; the spritemap is
\* never generated before the full run has finished, and a run that reaches
\* its end has generated it exactly once
C16_FastPath ==
    /\ [][SpritemapStep(
              /\ \A f \in ConfigFileNames : HasKey(files, f) /\ files[f] # NotJson
              /\ files["coins_config.json"] # << >>
              /\ \E f \in ConfigFileNames \ { "coins_config.json" } :
                    files[f] # << >>)]_vars
    /\ []((pc \in Running) => spritemaps = 0)
    /\ []((pc \in { "exited", "end" }) => spritemaps = 1)

\* the fast path taken with an empty secure-websocket map on disk
C16_Witness ==
    /\ pc = "exited"
    /\ generate_spritemap_only
    /\ scans = 0
    /\ spritemaps = 1
    /\ HasKey(files, "coins_config_wss.json")
    /\ files["coins_config_wss.json"] = << >>

(***************************************************************************)
(* More claims about filter_duplicate_domains                              *)
(***************************************************************************)
\* a TCP entry whose own domain has an SSL entry in the list l
TcpOfSslDomain(l, e) ==
    /\ e["protocol"] = "TCP"
    /\ DomainHas(l, SplitColonFirst(e["url"]), "SSL")

RECURSIVE WithoutTcpOfSslDomains(_, _)
WithoutTcpOfSslDomains(l, rest) ==
    IF rest = << >> THEN << >>
    ELSE (IF TcpOfSslDomain(l, Head(rest)) THEN << >> ELSE << Head(rest) >>)
             \o WithoutTcpOfSslDomains(l, Tail(rest))

Tcp_p1 == [ url |-> Url_p1, protocol |-> "TCP" ]
Ssl_p1 == [ url |-> Url_p1, protocol |-> "SSL" ]

\* C17: filter_duplicate_domains(L) is L without the TCP entries whose own
\* domain has both an SSL and a TCP entry in L: every other entry (SSL, WSS,
\* entries of other domains, also of a domain whose name begins with the
\* name of a deduplicated domain) is kept, in the order of L.
C17_RemovesExactlyTcpOfSslDomains ==
    dd_calls >= 1 => dd_first = WithoutTcpOfSslDomains(dd_input, dd_input)

\* the TCP entry of x.com is lost to the deduplication of domain x.co
C17_PrefixDomainLost ==
    /\ dd_calls = 1
    /\ dd_input = << Tcp_x1, Ssl_p1, Tcp_p1 >>
    /\ dd_first = << Ssl_p1 >>

(***************************************************************************)
(* More claims about get_electrums                                         *)
(***************************************************************************)
\* the tags under which url k has a fresh observation in the report
FreshTags(k) ==
    { x \in { "tcp", "ssl", "wss" } :
        \E j \in 1..Len(ge_report[x]) :
            ge_report[x][j].k = k /\ IsFresh(ge_report[x][j].v) }

\* the largest number of tags under which one url is fresh
MaxFreshTags ==
    CHOOSE n \in 0..Cardinality(ScanTagSet) :
        /\ \A k \in GeUrls : Cardinality(FreshTags(k)) <= n
        /\ (n = 0 \/ \E k \in GeUrls : Cardinality(FreshTags(k)) = n)

\* C18 as stated: a single static server entry gives at most two output
\* entries, whatever the report.
C18_AtMostTwoPerStatic ==
    (ge_done /\ Len(ge_electrums) = 1) => Len(ge_out) <= 2

\* C18 amended: a static entry gives one output entry for each of its urls
\* (url, ws_url) and each tag under which that url is fresh: at most two
\* entries when no url is fresh under more than one tag, and at most two for
\* each tag a url is fresh under otherwise.
C18_AtMostTwoPerStaticAndTag ==
    ge_done => Len(ge_out) <= 2 * MaxFreshTags * Len(ge_electrums)

\* one static entry, its url fresh under two tags: four output entries
C18_Witness ==
    /\ ge_done
    /\ Len(ge_electrums) = 1
    /\ MaxFreshTags = 2
    /\ Len(ge_out) = 4

\* the age of the j-th observation under tag x
AgeOf(x, j) == CurrentTime - ge_report[x][j].v["last_connection"]

\* C19: every entry of the reconciled list has the url of an observation
\* less than 604800 seconds old, under the tag of the entry or, for a WSS
\* entry, under any tag; a static url observed only 604800 seconds ago or
\* earlier is in no entry; with no observation younger than 604800 seconds
\* the reconciled list is empty.
C19_OnlyFreshObservations ==
    ge_done =>
        /\ \A n \in 1..Len(ge_out) :
              \E x \in ScanTagSet : \E j \in 1..Len(ge_report[x]) :
                  /\ ge_report[x][j].k = ge_out[n]["url"]
                  /\ AgeOf(x, j) < 604800
                  /\ ge_out[n]["protocol"] \in { Upper(x), "WSS" }
        /\ (\A x \in ScanTagSet : \A j \in 1..Len(ge_report[x]) :
                AgeOf(x, j) >= 604800) => ge_out = << >>

\* a static server observed twice: the observation 604800 seconds old gives
\* no entry, the one a second younger gives one
C19_Witness ==
    /\ ge_done
    /\ Len(ge_out) = 1
    /\ \E x, y \in ScanTagSet :
          /\ Len(ge_report[x]) = 1 /\ Len(ge_report[y]) = 1
          /\ AgeOf(x, 1) = 604800
          /\ AgeOf(y, 1) = 604799
          /\ \E i \in 1..Len(ge_electrums) :
                /\ HasKey(ge_electrums[i], "url")
                /\ ge_electrums[i]["url"] = ge_report[x][1].k

(***************************************************************************)
(* C20: the Electrum lists of the TCP view                                 *)
(***************************************************************************)
\* the Electrum list of a coin in the TLS view as filter_ssl returned it
TlsListOf(coin) ==
    LET view == files["coins_config_ssl.json"]
    IN  IF HasKey(view, coin) /\ HasKey(view[coin], "electrum")
        THEN view[coin]["electrum"]
        ELSE << >>

NotWssNotProxyOnly(i) ==
    /\ ~IsWssEntry(i)
    /\ ~(HasKey(i, "komodo_proxy") /\ i["komodo_proxy"] = TRUE)

\* the entries of l in order, an entry left out when an earlier entry has
\* its url
RECURSIVE OncePerUrl(_, _)
OncePerUrl(seen, l) ==
    IF l = << >> THEN seen
    ELSE OncePerUrl(IF \E n \in 1..Len(seen) : seen[n]["url"] = Head(l)["url"]
                    THEN seen ELSE Append(seen, Head(l)),
                    Tail(l))

\* C20: for every coin of the TCP view with an Electrum list: when the coin
\* has entries in the TLS view the list begins with those entries, in their
\* order; otherwise it consists of the canonical entries that are neither
\* WSS-tagged nor proxy-only, in their order, each url once; every SSL entry
\* of the coin's TLS view is in the list, and no entry of the list is
\* WSS-tagged.
C20_TcpViewLists ==
    pc = "done" =>
        \A coin \in DOMAIN coins_config_tcp :
            HasKey(coins_config_tcp[coin], "electrum") =>
                LET list == coins_config_tcp[coin]["electrum"]
                    tls == TlsListOf(coin)
                IN  /\ IF Len(tls) > 0
                       THEN /\ Len(list) >= Len(tls)
                            /\ SubSeq(list, 1, Len(tls)) = tls
                       ELSE list = OncePerUrl(<< >>,
                                       SelectSeq(coins_config[coin]["electrum"],
                                                 NotWssNotProxyOnly))
                    /\ \A e \in ListSet(tls) : IsSslEntry(e) => e \in ListSet(list)
                    /\ \A e \in ListSet(list) : ~IsWssEntry(e)

\* a coin whose TCP list is its TLS entries followed by a canonical entry,
\* with a WSS entry of the canonical list left out
C20_Witness ==
    /\ pc = "done"
    /\ \E coin \in DOMAIN coins_config_tcp :
          /\ HasKey(coins_config_tcp[coin], "electrum")
          /\ Len(TlsListOf(coin)) > 0
          /\ Len(coins_config_tcp[coin]["electrum"]) > Len(TlsListOf(coin))

(***************************************************************************)
(* Claims about the record of one coin                                     *)
(***************************************************************************)
InEitherTable(k) == TableHas(protocols, k) \/ TableHas(testnet_protocols, k)

\* rec_item is a token of a platform, and neither its ticker nor its
\* platform is a key of protocols or testnet_protocols
UnknownToken ==
    /\ rec_item["protocol"]["type"] \in { "ERC20", "TENDERMINTTOKEN" }
    /\ HasKey(rec_item["protocol"], "protocol_data")
    /\ HasKey(rec_item["protocol"]["protocol_data"], "platform")
    /\ ~InEitherTable(rec_item["protocol"]["protocol_data"]["platform"])
    /\ ~InEitherTable(StrReplace(rec_item["coin"], Sfx_TEST, << >>))

\* C21: for a token whose ticker and platform are in neither family table
\* get_protocol_info returns without raising and leaves the record's type
\* equal to the declared protocol type.
C21_UnknownTokenKeepsRawType ==
    (rec_pc = "get_protocol_info" /\ UnknownToken) =>
        /\ rec_self.ok
        /\ rec_self.data["type"] = rec_item["protocol"]["type"]

BaseTypes == { "UTXO", "ZHTLC", "BCH", "QTUM" }

\* the table get_parent_coin searches: by the is_testnet flag of the record
RecTable == IF rec_self.data["is_testnet"] THEN testnet_protocols ELSE protocols

\* the first key of RecTable, in table order, with value tag; None without
FirstKeyOf(tag) ==
    IF \E n \in 1..Len(RecTable) : RecTable[n][2] = tag
    THEN LET n == CHOOSE n \in 1..Len(RecTable) :
                      /\ RecTable[n][2] = tag
                      /\ \A m \in 1..Len(RecTable) : RecTable[m][2] = tag => n <= m
         IN  RecTable[n][1]
    ELSE None

\* the type the record has when get_protocol_info calls get_parent_coin
\* (line 247): the declared type without protocol_data or with
\* consensus_params, the family of the platform, else still empty
TypeAtLookup ==
    LET protocol == rec_item["protocol"]
    IN  IF ~HasKey(protocol, "protocol_data") THEN protocol["type"]
        ELSE IF HasKey(protocol["protocol_data"], "platform")
        THEN TableGet(IF rec_self.data["is_testnet"] THEN testnet_protocols
                      ELSE protocols, protocol["protocol_data"]["platform"])
        ELSE IF HasKey(protocol["protocol_data"], "consensus_params")
        THEN protocol["type"]
        ELSE ""

\* the ticker names one of the Tendermint parents get_parent_coin looks for
\* (lines 355-362)
TendermintParent ==
    IF StrContains(rec_self.ticker, T_IRISTEST) THEN T_IRISTEST
    ELSE IF StrContains(rec_self.ticker, T_NUCLEUSTEST) THEN T_NUCLEUSTEST
    ELSE IF StrContains(rec_self.ticker, Pfx_IBC \o T_IRIS) THEN T_IRIS
    ELSE IF StrContains(rec_self.ticker, Pfx_IBC \o T_ATOM) THEN T_ATOM
    ELSE IF StrContains(rec_self.ticker, Pfx_IBC \o T_OSMO) THEN T_OSMO
    ELSE None

ProtocolInfoDone == rec_pc = "get_protocol_info" /\ rec_self.ok

\* C22 as stated: the parent of a coin of type UTXO, ZHTLC, BCH or QTUM is
\* its own ticker; the parent of a coin of any other type is the first key
\* of the family table whose value is the record's type, none without one.
C22_OwnTickerOrFirstKey ==
    ProtocolInfoDone =>
        rec_self.parent_coin =
            IF rec_self.coin_type \in BaseTypes THEN rec_self.ticker
            ELSE FirstKeyOf(rec_self.data["type"])

\* C22 amended: RBTC has parent RSK; a Tendermint coin whose ticker names
\* IRISTEST, NUCLEUSTEST, IBC_IRIS, IBC_ATOM or IBC_OSMO has that parent;
\* otherwise a coin of type UTXO, ZHTLC, BCH or QTUM has no parent, and a
\* coin of another type has its own ticker when that is a key of the table,
\* else the first key, in table order, whose value is the type the record
\* had when the lookup ran, and none when no value matches.
C22_ParentCoin ==
    ProtocolInfoDone =>
        rec_self.parent_coin =
            IF rec_self.ticker = T_RBTC THEN T_RSK
            ELSE IF /\ rec_self.coin_type \in { "TENDERMINT", "TENDERMINTTOKEN" }
                    /\ TendermintParent # None
            THEN TendermintParent
            ELSE IF rec_self.coin_type \in BaseTypes THEN None
            ELSE IF TableHas(RecTable, rec_self.ticker) THEN rec_self.ticker
            ELSE FirstKeyOf(TypeAtLookup)

\* a Tendermint coin outside the table: its parent is ATOM, the first of
\* the three keys with value TENDERMINT
C22_Witness ==
    /\ ProtocolInfoDone
    /\ rec_self.ticker = T_X
    /\ rec_self.coin_type = "TENDERMINT"
    /\ rec_self.parent_coin = T_ATOM

\* l is the marker list ["SIA"]; the lists of server entries (dicts) are
\* told from it by their text
IsSiaMarker(l) == ToString(l) = ToString(<< "SIA" >>)

\* C23: a coin of declared type SIA ends record building with its nodes
\* equal to ["SIA"], with or without an electrums file and with or without
\* an entry in the liveness report.
C23_SiaMarkerList ==
    (rec_pc = "built" /\ rec_self.ok /\ rec_self.coin_type = "SIA") =>
        /\ HasKey(rec_self.data, "nodes")
        /\ IsSiaMarker(rec_self.data["nodes"])

----------------------------------------------------------------------------
(* Claims about the probes of the seed-node validator *)

\* the number of probes of protocol kind started for the node named name
ProbesOf(kind, name) ==
    Cardinality({ i \in 1..Len(pr_log) : pr_log[i] = << kind, name >> })

\* the node is one that the loop of protocol kind probes
Probed(kind, node) ==
    /\ kind = "wss" => node.wss
    /\ node.netid >= 0
    /\ node.netid <= 14428

\* C24 as stated: the probes of a protocol run concurrently, no probe
\* waits for another one to complete: while a probe is in flight, the
\* probe of every node of that protocol has been started.
C24_ProbesRunTogether ==
    \A kind \in { "wss", "tcp" } :
        (sn_pc = kind /\ pr_in_flight # { }) =>
            \A i \in 1..Len(seed_nodes.nodes) :
                Probed(kind, seed_nodes.nodes[i]) =>
                    ProbesOf(kind, seed_nodes.nodes[i].name) >= 1

\* C24: the probes run one after another: at most one probe is in flight
\* at any time, no probe is made twice, only the nodes of the protocol
\* with a valid netid are probed, and when the loop of a protocol has
\* returned each of them has been probed exactly once.
C24_OneProbeAtATime ==
    /\ Cardinality(pr_in_flight) <= 1
    /\ pr_log # << >> =>
          \A kind \in { "wss", "tcp" } :
              \A i \in 1..Len(seed_nodes.nodes) :
                  LET node == seed_nodes.nodes[i]
                  IN  /\ ProbesOf(kind, node.name) <= 1
                      /\ ~Probed(kind, node) => ProbesOf(kind, node.name) = 0
    /\ wss_connectivity_result # << >> =>
          \A i \in 1..Len(seed_nodes.nodes) :
              Probed("wss", seed_nodes.nodes[i]) =>
                  ProbesOf("wss", seed_nodes.nodes[i].name) = 1
    /\ tcp_connectivity_result # << >> =>
          \A i \in 1..Len(seed_nodes.nodes) :
              Probed("tcp", seed_nodes.nodes[i]) =>
                  ProbesOf("tcp", seed_nodes.nodes[i].name) = 1

\* both loops have returned after two probes each, and a node that is not
\* WSS-enabled has been left out of the first
C24_Witness ==
    /\ tcp_connectivity_result # << >>
    /\ Len(seed_nodes.nodes) = 2
    /\ Len(pr_log) = 3

\* the two loops give what check_wss_connectivity and
\* check_tcp_connectivity give as whole calls
ProbesAgreeWithCalls ==
    /\ wss_connectivity_result # << >> =>
          wss_connectivity_result[1] =
              check_wss_connectivity(seed_nodes.nodes, network).returned
    /\ tcp_connectivity_result # << >> =>
          tcp_connectivity_result[1] =
              check_tcp_connectivity(seed_nodes.nodes, network).returned

----------------------------------------------------------------------------
(* Claims about the exclusion list *)

\* C25: the exclusion list names each ticker at most once, and the removal
\* step of main never meets a ticker that is already gone: it does not end
\* the run with KeyError.
C25_NodataNamesOnce ==
    /\ [](\A i, j \in 1..Len(nodata) : nodata[i] = nodata[j] => i = j)
    /\ [][pc = "exclude" => pc' # "crashed"]_vars

\* C26: parse_coins_repo keeps one record per coin definition: when its
\* first loop has ended, the unfiltered map has as many records as the
\* coins file has definitions, and every definition has its record in it.
C26_OneRecordPerDefinition ==
    (pc = "parse" /\ parse_idx = Len(coins_data) + 1) =>
        /\ Cardinality(DOMAIN coins_config) = Len(coins_data)
        /\ \A i \in 1..Len(coins_data) :
              \E t \in DOMAIN coins_config :
                  coins_config[t]["fname"] = coins_data[i]["fname"]

----------------------------------------------------------------------------
(* Claims about proxy-only entries *)

ProxyOnly(i) == HasKey(i, "komodo_proxy") /\ i["komodo_proxy"] = TRUE

\* C27: no proxy-only Electrum entry (komodo_proxy true) is in a coin's
\* list in the plaintext/TCP view, the SSL-tagged proxy-only entries of the
\* TLS view included.
C27_NoProxyOnlyInTcpView ==
    pc = "done" =>
        \A coin \in DOMAIN coins_config_tcp :
            HasKey(coins_config_tcp[coin], "electrum") =>
                \A n \in 1..Len(coins_config_tcp[coin]["electrum"]) :
                    ~ProxyOnly(coins_config_tcp[coin]["electrum"][n])

----------------------------------------------------------------------------
(* Claims about the order of the steps of validate_seed_nodes *)

\* both files loaded, the schema is well-formed, the registry matches it
\* and no two nodes share a name or a host
RegistryAccepted ==
    /\ schema # << >>
    /\ ~schema.is_none
    /\ schema.well_formed
    /\ seed_nodes # << >>
    /\ ~seed_nodes.is_none
    /\ seed_nodes.matches
    /\ \A i, j \in 1..Len(seed_nodes.nodes) :
          i # j => /\ seed_nodes.nodes[i].name # seed_nodes.nodes[j].name
                   /\ seed_nodes.nodes[i].host # seed_nodes.nodes[j].host

\* C28: no probe is made unless the schema and the registry loaded, the
\* schema is well-formed, the registry validates and has no duplicate name
\* or host; every WSS probe has completed and the WSS check has returned
\* before the first TCP probe starts; and the TCP check is run whatever the
\* WSS check returned, a failure included.
C28_ProbesInOrder ==
    /\ [](pr_log # << >> => RegistryAccepted)
    /\ [](\A i, j \in 1..Len(pr_log) :
            (pr_log[i][1] = "tcp" /\ pr_log[j][1] = "wss") => i > j)
    /\ []((\E i \in 1..Len(pr_log) : pr_log[i][1] = "tcp") =>
            /\ wss_connectivity_result # << >>
            /\ \A p \in pr_in_flight : p[1] = "tcp")
    /\ [][(sn_pc = "wss" /\ wss_connectivity_result' # << >>) => sn_pc' = "tcp"]_vars
    /\ []((tcp_connectivity_result # << >> /\ wss_connectivity_result = << FALSE >>) =>
            \A i \in 1..Len(seed_nodes.nodes) :
                (seed_nodes.nodes[i].netid >= 0 /\ seed_nodes.nodes[i].netid <= 14428) =>
                    \E n \in 1..Len(pr_log) :
                        pr_log[n] = << "tcp", seed_nodes.nodes[i].name >>)

\* a WSS probe failed, the WSS check returned False, and both nodes have had
\* their TCP probe
C28_Witness ==
    /\ wss_connectivity_result = << FALSE >>
    /\ tcp_connectivity_result # << >>
    /\ \E i \in 1..Len(pr_log) : pr_log[i][1] = "wss"
    /\ Cardinality({ i \in 1..Len(pr_log) : pr_log[i][1] = "tcp" }) = 2

----------------------------------------------------------------------------
(* Claims about nodes with an invalid netid *)

InvalidNetid(node) == node.netid < 0 \/ node.netid > 14428

\* C29: a node whose netid is outside 0..14428 does not stop the checks,
\* whatever its position: when the registry was accepted both checks
\* return, a check whose list has such a node returns False, and every
\* other node of each list has been probed.
C29_InvalidNetidIsAFailedProbe ==
    (sn_pc = "exit" /\ RegistryAccepted) =>
        /\ wss_connectivity_result # << >>
        /\ tcp_connectivity_result # << >>
        /\ \A i \in 1..Len(seed_nodes.nodes) :
              LET node == seed_nodes.nodes[i]
              IN  IF InvalidNetid(node)
                  THEN /\ tcp_connectivity_result = << FALSE >>
                       /\ node.wss => wss_connectivity_result = << FALSE >>
                  ELSE /\ \E n \in 1..Len(pr_log) : pr_log[n] = << "tcp", node.name >>
                       /\ node.wss =>
                             \E n \in 1..Len(pr_log) : pr_log[n] = << "wss", node.name >>

----------------------------------------------------------------------------
(* Claims about the ports of all netids *)

\* C30: for the netids n, m in 0..14428: tcp_port(n) and wss_port(n) are
\* at most 65535, wss_port(n) = tcp_port(n) + 10, tcp_port(n) differs from
\* wss_port(m), and n # m implies tcp_port(n) # tcp_port(m) and
\* wss_port(n) # wss_port(m).  ports_tcp and ports_wss hold the ports of
\* every m < netid.
C30_PortsDistinct ==
    (port_done /\ netid >= 0 /\ netid <= 14428) =>
        /\ Cardinality(ports_tcp) = netid
        /\ Cardinality(ports_wss) = netid
        /\ "returned" \in DOMAIN port_tcp
        /\ "returned" \in DOMAIN port_wss
        /\ port_tcp.returned <= 65535
        /\ port_wss.returned <= 65535
        /\ port_wss.returned = port_tcp.returned + 10
        /\ port_tcp.returned \notin ports_tcp
        /\ port_wss.returned \notin ports_wss
        /\ port_tcp.returned \notin ports_wss
        /\ port_wss.returned \notin ports_tcp

\* the first netid of the second ten: its ports are compared with the
\* ports of the ten netids below it, the WSS port of netid 9 among them
C30_Witness ==
    /\ port_done
    /\ netid = 10
    /\ port_tcp = [ returned |-> 7843 ]
    /\ port_wss = [ returned |-> 7853 ]
    /\ Cardinality(ports_tcp) = 10
    /\ 7822 \in ports_wss

====
